---- MODULE Spec2Model ----
(***************************************************************************)
(* Model of the truck modeling builder (truck-modeling/src/builder.rs):    *)
(* homotopy, try_wire_homotopy, rsweep, cone and try_attach_plane, over a  *)
(* small model of the topology primitives (Vertex, Edge, Wire, Face,       *)
(* Shell).  Every builder function is a pure function of its arguments;    *)
(* an action draws the arguments of one call, applies the function and     *)
(* records the call and what it returned.                                  *)
(***************************************************************************)
EXTENDS Integers, Sequences, FiniteSets, TLC

VARIABLES op, args, ret

vars == <<op, args, ret>>

(***************************************************************************)
(* Bounds of the model.                                                    *)
(***************************************************************************)
\* most edges in a wire handed to try_wire_homotopy, rsweep or cone
MaxLen == 2
\* most edges in the wire drawn for try_attach_plane
MaxPlaneLen == 3
\* most edges in a wire handed to try_wire_homotopy
MaxTubeLen == 3

(***************************************************************************)
(* Points and vectors: integer triples.                                    *)
(***************************************************************************)
\* Coordinates are counted in quarters, so that the midpoints the model
\* needs are integer: <<0, 4, 0>> is the point (0, 1, 0).
PointTable == << <<0, 4, 0>>, <<0, 0, 4>>, <<0, 0, 0>>, <<4, 0, 0>> >>

VPoint(i) == PointTable[i]

\* the vertices the caller has made before the call, one at each point
NumVerts == Len(PointTable)

Add(p, q) == <<p[1] + q[1], p[2] + q[2], p[3] + q[3]>>

Half(p) == <<p[1] \div 2, p[2] \div 2, p[3] \div 2>>

Sub(p, q) == <<p[1] - q[1], p[2] - q[2], p[3] - q[3]>>

Scale(k, v) == <<k * v[1], k * v[2], k * v[3]>>

Cross(u, v) ==
    <<u[2] * v[3] - u[3] * v[2], u[3] * v[1] - u[1] * v[3], u[1] * v[2] - u[2] * v[1]>>

Dot(u, v) == u[1] * v[1] + u[2] * v[2] + u[3] * v[3]

\* Tolerance::so_small on integer vectors: the zero vector
SoSmall(v) == v = <<0, 0, 0>>

(***************************************************************************)
(* Topology primitives.  A vertex is an identity and a point; an edge is   *)
(* an identity (its curve), its two absolute end vertices and an           *)
(* orientation; a wire is a sequence of edges.                             *)
(***************************************************************************)
Vertex(id, pt) == [id |-> id, pt |-> pt]

Line(pt0, pt1) == [kind |-> "Line", pts |-> <<pt0, pt1>>]

Edge(id, v0, v1, curve) == [id |-> id, v0 |-> v0, v1 |-> v1, ori |-> TRUE, curve |-> curve]

front(e) == IF e.ori THEN e.v0 ELSE e.v1

back(e) == IF e.ori THEN e.v1 ELSE e.v0

inverse(e) == [e EXCEPT !.ori = ~e.ori]

Reverse(s) == [i \in 1..Len(s) |-> s[Len(s) + 1 - i]]

oriented_curve(e) ==
    IF e.ori THEN e.curve ELSE [e.curve EXCEPT !.pts = Reverse(e.curve.pts)]

Face(boundaries, surface) == [boundaries |-> boundaries, ori |-> TRUE, surface |-> surface]

\* builder::line
line(id, vertex0, vertex1) == Edge(id, vertex0, vertex1, Line(vertex0.pt, vertex1.pt))

\* Wire::is_closed / is_continuous
IsContinuous(w) == \A i \in 1..(Len(w) - 1) : back(w[i]).id = front(w[i + 1]).id

IsClosed(w) == Len(w) = 0 \/ (IsContinuous(w) /\ back(w[Len(w)]).id = front(w[1]).id)

\* the ids of the vertices, of the edges, of a wire
VertexIds(wire) ==
    {wire[i].v0.id : i \in 1..Len(wire)} \cup {wire[i].v1.id : i \in 1..Len(wire)}

EdgeIds(wire) == {wire[i].id : i \in 1..Len(wire)}

(***************************************************************************)
(* The caller's data: vertices 1..NumVerts and wires drawn through them    *)
(* with builder::line.                                                     *)
(***************************************************************************)
PoolVertex(i) == Vertex(i, VPoint(i))

\* the vertex paths of at most n edges; the empty path is the empty wire
PathsUpTo(n) ==
    {<<>>} \cup
    {p \in UNION {[1..k -> 1..NumVerts] : k \in 2..(n + 1)} :
        \A i \in 1..(Len(p) - 1) : p[i] # p[i + 1]}

Paths == PathsUpTo(MaxLen)

\* the wire through the vertices of path p, its edges numbered from id0
PathWire(p, id0) ==
    IF Len(p) < 2 THEN <<>>
    ELSE [i \in 1..(Len(p) - 1) |->
            line(id0 + i - 1, PoolVertex(p[i]), PoolVertex(p[i + 1]))]

\* A second set of vertices, one over each of the caller's first ones: the
\* far ends of a tube.
TubeShift == <<0, 0, 8>>

FarVertex(i) == Vertex(NumVerts + i, Add(VPoint(i), TubeShift))

\* the wire of lines through the far vertices of path p
FarWire(p, id0) ==
    IF Len(p) < 2 THEN <<>>
    ELSE [i \in 1..(Len(p) - 1) |->
            line(id0 + i - 1, FarVertex(p[i]), FarVertex(p[i + 1]))]

(***************************************************************************)
(* homotopy(edge0, edge1)                                                  *)
(***************************************************************************)
HomotopySurface(edge0, edge1) ==
    [kind |-> "NurbsSurface", curve0 |-> oriented_curve(edge0), curve1 |-> oriented_curve(edge1)]

\* the closing line drawn from edge0's front to edge1's front
homotopy_closing_reversed(edge0, edge1, ne) ==
    LET wire == << edge0,
                   line(ne, back(edge0), back(edge1)),
                   inverse(edge1),
                   line(ne + 1, front(edge0), front(edge1)) >>
    IN [tag |-> "Face", face |-> Face(<<wire>>, HomotopySurface(edge0, edge1)), ne |-> ne + 2]

homotopy(edge0, edge1, ne) ==
    LET wire == << edge0,
                   line(ne, back(edge0), back(edge1)),
                   inverse(edge1),
                   line(ne + 1, front(edge1), front(edge0)) >>
    IN [tag |-> "Face", face |-> Face(<<wire>>, HomotopySurface(edge0, edge1)), ne |-> ne + 2]

(***************************************************************************)
(* try_wire_homotopy(wire0, wire1)                                         *)
(***************************************************************************)
\* the key as a sorted pair of ids
VeKey_sorted(v0, v1) ==
    IF v0.id <= v1.id THEN <<v0.id, v1.id>> ELSE <<v1.id, v0.id>>

\* the key closure of vemap
VeKey(v0, v1) == <<v0.id, v1.id>>

\* the value closure of vemap
VeValue(ne, v0, v1) == line(ne, v0, v1)

\* EntryMap::entry_or_insert: the entry under the key of (v0, v1), made by
\* the value closure when the key is new
entry_or_insert(vemap, ne, v0, v1) ==
    LET k == VeKey(v0, v1) IN
    IF k \in DOMAIN vemap
    THEN [edge |-> vemap[k], vemap |-> vemap, ne |-> ne]
    ELSE LET e == VeValue(ne, v0, v1)
         IN [edge |-> e, vemap |-> (k :> e) @@ vemap, ne |-> ne + 1]

RECURSIVE WireHomotopyFaces(_, _, _, _, _)
\* the faces with the connector of the fronts as the map holds it
WireHomotopyFaces_front_kept(wire0, wire1, i, vemap, ne) ==
    IF i > Len(wire0) THEN [shell |-> <<>>, vemap |-> vemap, ne |-> ne]
    ELSE LET edge0 == wire0[i]
             edge1 == wire1[i]
             r2 == entry_or_insert(vemap, ne, front(edge0), front(edge1))
             edge2 == r2.edge
             r3 == entry_or_insert(r2.vemap, r2.ne, back(edge0), back(edge1))
             edge3 == r3.edge
             wire == <<edge0, edge3, inverse(edge1), edge2>>
             face == Face(<<wire>>, HomotopySurface(edge0, edge1))
             rest == WireHomotopyFaces(wire0, wire1, i + 1, r3.vemap, r3.ne)
         IN [shell |-> <<face>> \o rest.shell, vemap |-> rest.vemap, ne |-> rest.ne]

\* the faces with a map made anew for each face
WireHomotopyFaces_map_per_face(wire0, wire1, i, vemap, ne) ==
    IF i > Len(wire0) THEN [shell |-> <<>>, vemap |-> vemap, ne |-> ne]
    ELSE LET edge0 == wire0[i]
             edge1 == wire1[i]
             r2 == entry_or_insert(<<>>, ne, front(edge0), front(edge1))
             edge2 == inverse(r2.edge)
             r3 == entry_or_insert(r2.vemap, r2.ne, back(edge0), back(edge1))
             edge3 == r3.edge
             wire == <<edge0, edge3, inverse(edge1), edge2>>
             face == Face(<<wire>>, HomotopySurface(edge0, edge1))
             rest == WireHomotopyFaces(wire0, wire1, i + 1, r3.vemap, r3.ne)
         IN [shell |-> <<face>> \o rest.shell, vemap |-> rest.vemap, ne |-> rest.ne]

WireHomotopyFaces(wire0, wire1, i, vemap, ne) ==
    IF i > Len(wire0) THEN [shell |-> <<>>, vemap |-> vemap, ne |-> ne]
    ELSE LET edge0 == wire0[i]
             edge1 == wire1[i]
             r2 == entry_or_insert(vemap, ne, front(edge0), front(edge1))
             edge2 == inverse(r2.edge)
             r3 == entry_or_insert(r2.vemap, r2.ne, back(edge0), back(edge1))
             edge3 == r3.edge
             wire == <<edge0, edge3, inverse(edge1), edge2>>
             face == Face(<<wire>>, HomotopySurface(edge0, edge1))
             rest == WireHomotopyFaces(wire0, wire1, i + 1, r3.vemap, r3.ne)
         IN [shell |-> <<face>> \o rest.shell, vemap |-> rest.vemap, ne |-> rest.ne]

\* the length check passing a shorter wire0
try_wire_homotopy_shorter_passes(wire0, wire1, ne) ==
    IF Len(wire0) > Len(wire1)
    THEN [tag |-> "Err", err |-> "NotSameNumberOfEdges", shell |-> <<>>, vemap |-> <<>>, ne |-> ne]
    ELSE LET r == WireHomotopyFaces(wire0, wire1, 1, <<>>, ne)
         IN [tag |-> "Ok", err |-> "", shell |-> r.shell, vemap |-> r.vemap, ne |-> r.ne]

\* the map of an earlier call on the same wires kept for the next call
try_wire_homotopy_map_kept(wire0, wire1, ne) ==
    IF Len(wire0) # Len(wire1)
    THEN [tag |-> "Err", err |-> "NotSameNumberOfEdges", shell |-> <<>>, vemap |-> <<>>, ne |-> ne]
    ELSE LET first == Len(wire0) + Len(wire1) + 1
             kept == IF ne > first THEN WireHomotopyFaces(wire0, wire1, 1, <<>>, first).vemap
                     ELSE <<>>
             r == WireHomotopyFaces(wire0, wire1, 1, kept, ne)
         IN [tag |-> "Ok", err |-> "", shell |-> r.shell, vemap |-> r.vemap, ne |-> r.ne]

try_wire_homotopy(wire0, wire1, ne) ==
    IF Len(wire0) # Len(wire1)
    THEN [tag |-> "Err", err |-> "NotSameNumberOfEdges", shell |-> <<>>, vemap |-> <<>>, ne |-> ne]
    ELSE LET r == WireHomotopyFaces(wire0, wire1, 1, <<>>, ne)
         IN [tag |-> "Ok", err |-> "", shell |-> r.shell, vemap |-> r.vemap, ne |-> r.ne]

(***************************************************************************)
(* The calls.                                                              *)
(***************************************************************************)
NoArgs == [none |-> TRUE]

Init ==
    /\ op = "none"
    /\ args = NoArgs
    /\ ret = [tag |-> "none"]

\* Edge::new takes two different vertices and Face::new a simple closed
\* boundary: the four corners of a face between edge0 and edge1 differ
SimpleQuad(edge0, edge1) ==
    Cardinality({front(edge0).id, back(edge0).id, front(edge1).id, back(edge1).id}) = 4

\* the vertices the wires of a tube are drawn through
TubeVertices == {1, 2, 3}

TubePaths == {p \in PathsUpTo(MaxTubeLen) : \A i \in 1..Len(p) : p[i] \in TubeVertices}

\* the pairs of wires handed to try_wire_homotopy: two wires through the
\* caller's first vertices, or a wire through some of them and a wire
\* through far vertices
HomotopyInputs ==
    {<<p0, p1, FALSE>> : p0 \in Paths, p1 \in Paths} \cup
    {<<p0, p1, TRUE>> : p0 \in TubePaths, p1 \in TubePaths}

CallTryWireHomotopy ==
    /\ op = "none"
    /\ \E in \in HomotopyInputs :
        LET p0 == in[1]
            p1 == in[2]
            far == in[3]
            wire0 == PathWire(p0, 1)
            wire1 == IF far THEN FarWire(p1, Len(wire0) + 1)
                     ELSE PathWire(p1, Len(wire0) + 1)
            ne == Len(wire0) + Len(wire1) + 1
        IN /\ Len(wire0) = Len(wire1) =>
                \A i \in 1..Len(wire0) : SimpleQuad(wire0[i], wire1[i])
           /\ op' = "try_wire_homotopy"
           /\ args' = [wire0 |-> wire0, wire1 |-> wire1, ne |-> ne]
           /\ ret' = try_wire_homotopy(wire0, wire1, ne)

CallHomotopy ==
    /\ op = "none"
    /\ \E p0 \in Paths, p1 \in Paths, o0 \in BOOLEAN, o1 \in BOOLEAN :
        /\ Len(p0) = 2
        /\ Len(p1) = 2
        /\ LET e0 == PathWire(p0, 1)[1]
               e1 == PathWire(p1, 2)[1]
               edge0 == IF o0 THEN e0 ELSE inverse(e0)
               edge1 == IF o1 THEN e1 ELSE inverse(e1)
           IN /\ SimpleQuad(edge0, edge1)
              /\ op' = "homotopy"
              /\ args' = [edge0 |-> edge0, edge1 |-> edge1, ne |-> 3]
              /\ ret' = homotopy(edge0, edge1, 3)

\* a second call with the wires of the call before
CallTryWireHomotopyAgain ==
    /\ op = "try_wire_homotopy"
    /\ op' = "try_wire_homotopy_again"
    /\ args' = [wire0 |-> args.wire0, wire1 |-> args.wire1, ne |-> ret.ne, first |-> ret]
    /\ ret' = try_wire_homotopy(args.wire0, args.wire1, ret.ne)

NextHomotopy == CallTryWireHomotopy \/ CallHomotopy

SpecHomotopy == Init /\ [][NextHomotopy]_vars

NextHomotopyTwice == CallTryWireHomotopy \/ CallTryWireHomotopyAgain

SpecHomotopyTwice == Init /\ [][NextHomotopyTwice]_vars

(***************************************************************************)
(* Properties of try_wire_homotopy and homotopy.                           *)
(***************************************************************************)
\* the places <<face, edge>> of the boundary edges of a shell
Places(shell) ==
    {pl \in (1..Len(shell)) \X (1..4) : pl[2] <= Len(shell[pl[1]].boundaries[1])}

EdgeAt(shell, pl) == shell[pl[1]].boundaries[1][pl[2]]

\* the connecting edges of a shell of four-sided faces
Connectors(shell) ==
    {shell[i].boundaries[1][k] : i \in 1..Len(shell), k \in {2, 4}}

\* the connecting edge e joins a to b, in either direction
Joins(e, a, b) == {e.v0.id, e.v1.id} = {a, b}

C11_ShellShape ==
    (op = "try_wire_homotopy" /\ ret.tag = "Ok") =>
        /\ Len(ret.shell) = Len(args.wire0)
        /\ \A i \in 1..Len(ret.shell) :
                LET face == ret.shell[i]
                    edge0 == args.wire0[i]
                    edge1 == args.wire1[i]
                IN /\ Len(face.boundaries) = 1
                   /\ LET w == face.boundaries[1]
                      IN /\ Len(w) = 4
                         /\ w[1] = edge0
                         /\ front(w[2]) = back(edge0) /\ back(w[2]) = back(edge1)
                         /\ w[2].curve = Line(back(edge0).pt, back(edge1).pt)
                         /\ w[3] = inverse(edge1)
                         /\ front(w[4]) = front(edge1) /\ back(w[4]) = front(edge0)
                         /\ inverse(w[4]).curve = Line(front(edge0).pt, front(edge1).pt)
                         /\ \A k \in {2, 4} : w[k].id \notin EdgeIds(args.wire0 \o args.wire1)
                         /\ IsClosed(w)

\* the triangular tube of the documentation
C11_Witness ==
    /\ op = "try_wire_homotopy"
    /\ ret.tag = "Ok"
    /\ Len(args.wire0) = 3
    /\ IsClosed(args.wire0)
    /\ IsClosed(args.wire1)
    /\ Len(ret.shell) = 3
    /\ IsClosed(ret.shell[3].boundaries[1])

(***************************************************************************)
(* The boundary of a shell (Shell::extract_boundaries): the edges used by  *)
(* one face only, chained front to back into wires.                        *)
(***************************************************************************)
\* the places of the edges that no other place of the shell uses
BoundaryPlaces(shell) ==
    LET all == Places(shell)
    IN {pl \in all : \A q \in all : EdgeAt(shell, q).id = EdgeAt(shell, pl).id => q = pl}

\* the boundary edges that start where the edge at pl ends
Following(shell, bd, pl) ==
    {q \in bd : front(EdgeAt(shell, q)).id = back(EdgeAt(shell, pl)).id}

\* the places reached from the places in seen along the boundary
RECURSIVE Chain(_, _, _)
Chain(shell, bd, seen) ==
    LET more == seen \cup UNION {Following(shell, bd, pl) : pl \in seen}
    IN IF more = seen THEN seen ELSE Chain(shell, bd, more)

\* the boundary wires, each as the set of its places
extract_boundaries(shell) ==
    LET bd == BoundaryPlaces(shell)
    IN {Chain(shell, bd, {pl}) : pl \in bd}

\* every boundary edge is followed by one boundary edge, and led to by one
BoundaryIsLoops(shell) ==
    LET bd == BoundaryPlaces(shell)
    IN \A pl \in bd :
            /\ Cardinality(Following(shell, bd, pl)) = 1
            /\ Cardinality({q \in bd : pl \in Following(shell, bd, q)}) = 1

\* no vertex is met twice along the wire (but the first, by a closed wire)
SimpleWire(w) ==
    \A i, j \in 1..Len(w) :
        (front(w[i]).id = front(w[j]).id \/ back(w[i]).id = back(w[j]).id) => i = j

Disjoint(wire0, wire1) == VertexIds(wire0) \cap VertexIds(wire1) = {}

\* the two uses of one edge object in a shell run opposite ways
UsedBothWays(shell, e) ==
    LET uses == {pl \in Places(shell) : EdgeAt(shell, pl).id = e.id}
    IN /\ Cardinality(uses) = 2
       /\ \E p1, p2 \in uses : EdgeAt(shell, p1).ori # EdgeAt(shell, p2).ori

C12_WitnessTube ==
    /\ op = "try_wire_homotopy"
    /\ ret.tag = "Ok"
    /\ Len(args.wire0) = 3
    /\ IsClosed(args.wire0) /\ IsClosed(args.wire1)
    /\ Disjoint(args.wire0, args.wire1)
    /\ Cardinality(extract_boundaries(ret.shell)) = 2
    /\ \A l \in extract_boundaries(ret.shell) : Cardinality(l) = 3

\* the ids of the connecting edges of a shell
ConnectorIds(shell) == {e.id : e \in Connectors(shell)}

\* C21: the vertex-pair map of try_wire_homotopy lives for one call: a second
\* call with the same wires starts from an empty map, makes its own
\* connecting edges, as many as the first call made, and no connecting edge
\* of either shell is in the other.
C21_MapPerCall ==
    (op = "try_wire_homotopy_again" /\ ret.tag = "Ok") =>
        /\ args.first.tag = "Ok"
        /\ ConnectorIds(ret.shell) \cap ConnectorIds(args.first.shell) = {}
        /\ DOMAIN ret.vemap = DOMAIN args.first.vemap
        /\ \A k \in DOMAIN ret.vemap : ret.vemap[k].id >= args.ne
        /\ Cardinality(ConnectorIds(ret.shell)) = Cardinality(ConnectorIds(args.first.shell))
        /\ ret.ne - args.ne = Cardinality(DOMAIN ret.vemap)

\* two calls on the same two open chains of two edges: three connectors each
C21_Witness ==
    /\ op = "try_wire_homotopy_again"
    /\ ret.tag = "Ok"
    /\ Len(args.wire0) = 2
    /\ Cardinality(ConnectorIds(args.first.shell)) = 3
    /\ Cardinality(ConnectorIds(ret.shell)) = 3
    /\ ConnectorIds(ret.shell) # ConnectorIds(args.first.shell)

(***************************************************************************)
(* Angles.  An angle is a sign and a magnitude, as an f64 is, so that the  *)
(* two zeros differ in their sign; magnitudes are counted in quarter       *)
(* turns.                                                                  *)
(***************************************************************************)
PI == 2

\* largest magnitude of an angle handed to rsweep or cone
MaxAngle == 5

Rad(neg, mag) == [neg |-> neg, mag |-> mag]

Angles == {Rad(neg, mag) : neg \in BOOLEAN, mag \in 0..MaxAngle}

\* f64::signum: 1.0 for a number with a clear sign bit, -1.0 otherwise
signum(angle) == IF angle.neg THEN -1 ELSE 1

abs(angle) == angle.mag

\* angle * sign
AngleTimes(angle, sign) == Rad(angle.neg # (sign < 0), angle.mag)

NegAngle(angle) == Rad(~angle.neg, angle.mag)

\* angle / division, kept as a fraction of quarter turns
AngleDiv(angle, division) == [neg |-> angle.neg, num |-> angle.mag, den |-> division]

(***************************************************************************)
(* The geometry of a revolution about the axis through origin.  A point    *)
(* off the axis that was turned k steps is the point with k and the axis   *)
(* appended; a point on the axis, and every point under a turn of zero,    *)
(* stays.  The                                                             *)
(* connector of a point is the arc (geom_impls::circle_arc) from it to its *)
(* image.                                                                  *)
(***************************************************************************)
Base(pt) == <<pt[1], pt[2], pt[3]>>

\* the steps of the last turn a point has taken
Turns(pt) == IF Len(pt) > 3 THEN pt[Len(pt) - 3] ELSE 0

OnAxis(pt, origin, axis) == SoSmall(Cross(Sub(Base(pt), origin), axis))

\* RevolutedCurve::by_revolution(curve, origin, axis)
Revoluted(curve, g) ==
    [kind |-> "RevolutedCurve", curve |-> curve, origin |-> g.origin, axis |-> g.axis]

(***************************************************************************)
(* The sweep of a wire (MultiSweep and ClosedSweep for Wire): the wire is  *)
(* mapped step by step, and step k joins image k of the wire to image      *)
(* k + 1 with one face per edge, [edge0, connector of the backs, inverse   *)
(* of edge1, inverse of the connector of the fronts]; the connector of a   *)
(* vertex is made once per step.  The last step of a closed sweep joins    *)
(* the last image to the wire itself.  Each step first makes the vertices  *)
(* and the edges of the next image, then the connectors.                   *)
(***************************************************************************)
Rank(x, S) == Cardinality({y \in S : y < x})

\* the closures of one sweep and the ids it starts from
Sweeper(wire, origin, axis, step, division, closed, nv, ne) ==
    [wire |-> wire, origin |-> origin, axis |-> axis, step |-> step,
     division |-> division, closed |-> closed, nv |-> nv, ne |-> ne,
     vids |-> VertexIds(wire), eids |-> EdgeIds(wire),
     numV |-> Cardinality(VertexIds(wire)), numE |-> Cardinality(EdgeIds(wire))]

\* image k of a point: Rotate applied k times
RotateK(pt, k, g) ==
    IF k = 0 \/ g.step.num = 0 \/ OnAxis(pt, g.origin, g.axis) THEN pt
    ELSE pt \o <<k>> \o g.axis

\* the image that step k joins image k to
NextImage(k, g) == IF g.closed /\ k = g.division - 1 THEN 0 ELSE k + 1

\* image k of a vertex of the wire (Vertex::mapped, k times)
MappedVertex(v, k, g) ==
    IF k = 0 THEN v
    ELSE Vertex(g.nv + (k - 1) * g.numV + Rank(v.id, g.vids), RotateK(v.pt, k, g))

\* image k of an edge of the wire (Wire::mapped, k times)
MappedEdge(e, k, g) ==
    IF k = 0 THEN e
    ELSE [id |-> g.ne + (k - 1) * (g.numE + g.numV) + Rank(e.id, g.eids),
          v0 |-> MappedVertex(e.v0, k, g),
          v1 |-> MappedVertex(e.v1, k, g),
          ori |-> e.ori,
          curve |-> [e.curve EXCEPT
                        !.pts = [i \in 1..Len(e.curve.pts) |-> RotateK(e.curve.pts[i], k, g)]]]

\* the connector that step k makes at vertex v of the wire
connect_vertices(v, k, g) ==
    Edge(g.ne + k * (g.numE + g.numV) + (IF NextImage(k, g) = 0 THEN 0 ELSE g.numE)
            + Rank(v.id, g.vids),
         MappedVertex(v, k, g), MappedVertex(v, NextImage(k, g), g),
         [kind |-> "NurbsCurve",
          pts |-> <<RotateK(v.pt, k, g), RotateK(v.pt, NextImage(k, g), g)>>,
          origin |-> g.origin, axis |-> g.axis, angle |-> g.step])

\* the face that step k makes over edge j of the wire
connect_edges(j, k, g) ==
    LET e == g.wire[j]
        edge0 == MappedEdge(e, k, g)
        edge1 == MappedEdge(e, NextImage(k, g), g)
        edge2 == connect_vertices(IF e.ori THEN e.v0 ELSE e.v1, k, g)
        edge3 == connect_vertices(IF e.ori THEN e.v1 ELSE e.v0, k, g)
    IN Face(<< <<edge0, edge3, inverse(edge1), inverse(edge2)>> >>,
            Revoluted(oriented_curve(edge0), g))

\* the shell of all steps, and the ids left
Sweep(g) ==
    LET n == Len(g.wire)
        images == IF g.closed THEN g.division - 1 ELSE g.division
    IN [shell |-> [f \in 1..(n * g.division) |->
                        connect_edges(((f - 1) % n) + 1, (f - 1) \div n, g)],
        nv |-> g.nv + images * g.numV,
        ne |-> g.ne + images * g.numE + g.division * g.numV]

multi_sweep(wire, origin, axis, step, division, nv, ne) ==
    Sweep(Sweeper(wire, origin, axis, step, division, FALSE, nv, ne))

closed_sweep(wire, origin, axis, step, division, nv, ne) ==
    Sweep(Sweeper(wire, origin, axis, step, division, TRUE, nv, ne))

(***************************************************************************)
(* rsweep(elem, origin, axis, angle), for a wire.                          *)
(***************************************************************************)
DIVISION == 3

\* axis.magnitude().near(&1.0)
IsUnit(axis) == Dot(axis, axis) = 1

Swept(regime, closed, division, origin, axis, angle, step, r) ==
    [tag |-> "Swept", regime |-> regime, closed |-> closed, division |-> division,
     origin |-> origin, axis |-> axis, angle |-> angle, step |-> step,
     shell |-> r.shell, nv |-> r.nv, ne |-> r.ne]

\* partial_rsweep taking two steps up to and including pi
partial_rsweep_two_at_pi(elem, origin, axis, angle, nv, ne) ==
    LET division == IF abs(angle) <= PI THEN 2 ELSE 3
        step == AngleDiv(angle, division)
    IN Swept("partial", FALSE, division, origin, axis, angle, step,
             multi_sweep(elem, origin, axis, step, division, nv, ne))

\* partial_rsweep taking two steps whatever the angle
partial_rsweep_always_two(elem, origin, axis, angle, nv, ne) ==
    LET division == 2
        step == AngleDiv(angle, division)
    IN Swept("partial", FALSE, division, origin, axis, angle, step,
             multi_sweep(elem, origin, axis, step, division, nv, ne))

partial_rsweep(elem, origin, axis, angle, nv, ne) ==
    LET division == IF abs(angle) < PI THEN 2 ELSE 3
        step == AngleDiv(angle, division)
    IN Swept("partial", FALSE, division, origin, axis, angle, step,
             multi_sweep(elem, origin, axis, step, division, nv, ne))

whole_rsweep(elem, origin, axis, nv, ne) ==
    LET step == AngleDiv(Rad(FALSE, 2 * PI), DIVISION)
    IN Swept("whole", TRUE, DIVISION, origin, axis, Rad(FALSE, 2 * PI), step,
             closed_sweep(elem, origin, axis, step, DIVISION, nv, ne))

Panic(nv, ne) == [tag |-> "Panic", shell |-> <<>>, nv |-> nv, ne |-> ne]

\* v.normalize(), for a vector along one coordinate axis
Normalized(v) ==
    [i \in 1..3 |-> IF v[i] > 0 THEN 1 ELSE IF v[i] < 0 THEN -1 ELSE 0]

\* rsweep making the axis a unit vector instead of checking it
rsweep_axis_normalized(elem, origin, axis, angle, debug, nv, ne) ==
    LET sign == signum(angle)
    IN IF abs(angle) >= 2 * PI
       THEN whole_rsweep(elem, origin, Scale(sign, Normalized(axis)), nv, ne)
       ELSE partial_rsweep(elem, origin, Scale(sign, Normalized(axis)),
                           AngleTimes(angle, sign), nv, ne)

\* rsweep handing the axis as given to the whole revolution
rsweep_whole_unsigned(elem, origin, axis, angle, debug, nv, ne) ==
    IF debug /\ ~IsUnit(axis) THEN Panic(nv, ne)
    ELSE LET sign == signum(angle)
         IN IF abs(angle) >= 2 * PI
            THEN whole_rsweep(elem, origin, axis, nv, ne)
            ELSE partial_rsweep(elem, origin, Scale(sign, axis), AngleTimes(angle, sign),
                                nv, ne)

\* rsweep folding the sign into the angle alone, the axis left as given
rsweep_axis_unsigned(elem, origin, axis, angle, debug, nv, ne) ==
    IF debug /\ ~IsUnit(axis) THEN Panic(nv, ne)
    ELSE LET sign == signum(angle)
         IN IF abs(angle) >= 2 * PI
            THEN whole_rsweep(elem, origin, Scale(sign, axis), nv, ne)
            ELSE partial_rsweep(elem, origin, axis, AngleTimes(angle, sign), nv, ne)

rsweep(elem, origin, axis, angle, debug, nv, ne) ==
    IF debug /\ ~IsUnit(axis) THEN Panic(nv, ne)
    ELSE LET sign == signum(angle)
         IN IF abs(angle) >= 2 * PI
            THEN whole_rsweep(elem, origin, Scale(sign, axis), nv, ne)
            ELSE partial_rsweep(elem, origin, Scale(sign, axis), AngleTimes(angle, sign),
                                nv, ne)

(***************************************************************************)
(* cone(wire, axis, angle)                                                 *)
(***************************************************************************)
\* curve.subs((t0 + t1) * 0.5) of a line or of a Bezier curve of degree 2
SubsMid(curve) ==
    LET c == curve.pts
    IN IF Len(c) = 2 THEN Half(Add(c[1], c[2]))
       ELSE Half(Half(Add(Add(c[1], c[3]), Scale(2, c[2]))))

\* curve.cut((t0 + t1) * 0.5): what is left in curve, and what is returned
CutFirst(curve) ==
    LET c == curve.pts
    IN IF Len(c) = 2 THEN [kind |-> curve.kind, pts |-> <<c[1], SubsMid(curve)>>]
       ELSE [kind |-> curve.kind, pts |-> <<c[1], Half(Add(c[1], c[2])), SubsMid(curve)>>]

CutSecond(curve) ==
    LET c == curve.pts
    IN IF Len(c) = 2 THEN [kind |-> curve.kind, pts |-> <<SubsMid(curve), c[2]>>]
       ELSE [kind |-> curve.kind, pts |-> <<SubsMid(curve), Half(Add(c[2], c[3])), c[3]>>]

\* the single edge cut in place: its own curve keeps the first half
Bisected_cuts_shared_curve(wire, nv, ne) ==
    LET edge == wire[Len(wire)]
        v0 == front(edge)
        v2 == back(edge)
        curve == edge.curve
        v1 == Vertex(nv, SubsMid(curve))
    IN << Edge(edge.id, v0, v1, CutFirst(curve)), Edge(ne + 1, v1, v2, CutSecond(curve)) >>

\* the single edge cut in two at a new vertex
Bisected(wire, nv, ne) ==
    LET edge == wire[Len(wire)]
        v0 == front(edge)
        v2 == back(edge)
        curve == edge.curve
        v1 == Vertex(nv, SubsMid(curve))
    IN << Edge(ne, v0, v1, CutFirst(curve)), Edge(ne + 1, v1, v2, CutSecond(curve)) >>

\* whether index idx, counted from 0 as the code counts, is one of seq:
\* indexing a shell or a wire out of its range panics
InRange(seq, idx) == 0 <= idx /\ idx < Len(seq)

\* face.boundaries().pop().unwrap()
LastBoundary(face) == face.boundaries[Len(face.boundaries)]

\* the pass around the apex at the front of the wire, from step i on
RECURSIVE ConeFront(_, _, _, _, _, _)
\* the front pass closing the ring with a new edge
ConeFront_new_closing_edge(shell, edge, i, n, closed, ne) ==
    IF i >= Len(shell) \div n THEN [shell |-> shell, ne |-> ne, panicked |-> FALSE]
    ELSE LET idx == i * n
             face == shell[idx + 1]
             surface == face.surface
             old_wire == face.boundaries[Len(face.boundaries)]
             new_edge == Edge(ne, front(old_wire[3]), front(edge),
                              oriented_curve(old_wire[3]))
             new_wire == <<edge, old_wire[2], new_edge>>
         IN ConeFront([shell EXCEPT ![idx + 1] = Face(<<new_wire>>, surface)],
                      inverse(new_edge), i + 1, n, closed, ne + 1)

ConeFront(shell, edge, i, n, closed, ne) ==
    IF i >= Len(shell) \div n THEN [shell |-> shell, ne |-> ne, panicked |-> FALSE]
    ELSE IF ~InRange(shell, i * n) \/ ~InRange(LastBoundary(shell[i * n + 1]), 2)
    THEN [shell |-> shell, ne |-> ne, panicked |-> TRUE]
    ELSE LET idx == i * n
             face == shell[idx + 1]
             surface == face.surface
             old_wire == face.boundaries[Len(face.boundaries)]
             last == closed /\ i + 1 = Len(shell) \div n
             new_edge == IF last THEN inverse(shell[1].boundaries[1][1])
                         ELSE Edge(ne, front(old_wire[3]), front(edge),
                                   oriented_curve(old_wire[3]))
             new_wire == <<edge, old_wire[2], new_edge>>
         IN ConeFront([shell EXCEPT ![idx + 1] = Face(<<new_wire>>, surface)],
                      inverse(new_edge), i + 1, n, closed, IF last THEN ne ELSE ne + 1)

\* the pass around the apex at the back of the wire, from step i on
RECURSIVE ConeBack(_, _, _, _, _, _)
\* the back pass starting each new edge at the turned copy of the apex
ConeBack_from_copy(shell, edge, i, n, closed, ne) ==
    IF i >= Len(shell) \div n THEN [shell |-> shell, ne |-> ne, panicked |-> FALSE]
    ELSE LET idx == (i + 1) * n - 1
             face == shell[idx + 1]
             surface == face.surface
             old_wire == face.boundaries[Len(face.boundaries)]
             last == closed /\ i + 1 = Len(shell) \div n
             new_edge == IF last THEN inverse(shell[n].boundaries[1][1])
                         ELSE Edge(ne, front(old_wire[3]), back(old_wire[3]),
                                   oriented_curve(old_wire[3]))
             new_wire == <<edge, new_edge, old_wire[4]>>
         IN ConeBack([shell EXCEPT ![idx + 1] = Face(<<new_wire>>, surface)],
                     inverse(new_edge), i + 1, n, closed, IF last THEN ne ELSE ne + 1)

\* the back pass laying its new wire out the way the front pass does
ConeBack_front_order(shell, edge, i, n, closed, ne) ==
    IF i >= Len(shell) \div n THEN [shell |-> shell, ne |-> ne, panicked |-> FALSE]
    ELSE LET idx == (i + 1) * n - 1
             face == shell[idx + 1]
             surface == face.surface
             old_wire == face.boundaries[Len(face.boundaries)]
             last == closed /\ i + 1 = Len(shell) \div n
             new_edge == IF last THEN inverse(shell[n].boundaries[1][1])
                         ELSE Edge(ne, back(edge), back(old_wire[3]),
                                   oriented_curve(old_wire[3]))
             new_wire == <<edge, old_wire[4], new_edge>>
         IN ConeBack([shell EXCEPT ![idx + 1] = Face(<<new_wire>>, surface)],
                     inverse(new_edge), i + 1, n, closed, IF last THEN ne ELSE ne + 1)

ConeBack(shell, edge, i, n, closed, ne) ==
    IF i >= Len(shell) \div n THEN [shell |-> shell, ne |-> ne, panicked |-> FALSE]
    ELSE IF ~InRange(shell, (i + 1) * n - 1)
            \/ ~InRange(LastBoundary(shell[(i + 1) * n]), 3)
    THEN [shell |-> shell, ne |-> ne, panicked |-> TRUE]
    ELSE LET idx == (i + 1) * n - 1
             face == shell[idx + 1]
             surface == face.surface
             old_wire == face.boundaries[Len(face.boundaries)]
             last == closed /\ i + 1 = Len(shell) \div n
             new_edge == IF last THEN inverse(shell[n].boundaries[1][1])
                         ELSE Edge(ne, back(edge), back(old_wire[3]),
                                   oriented_curve(old_wire[3]))
             new_wire == <<edge, new_edge, old_wire[4]>>
         IN ConeBack([shell EXCEPT ![idx + 1] = Face(<<new_wire>>, surface)],
                     inverse(new_edge), i + 1, n, closed, IF last THEN ne ELSE ne + 1)

\* what cone leaves: the wire given, which it only reads, its own copy of
\* the wire as swept, the sweep before and after the passes around the apexes
Cone(given, wire, irregular, pt1_on_axis, shell, nv, ne) ==
    [tag |-> "Shell", given |-> given, wire |-> wire, irregular |-> irregular,
     pt1_on_axis |-> pt1_on_axis, shell |-> shell, nv |-> nv, ne |-> ne]

\* cone without the pass around the back apex
cone_front_only(wire0, axis, angle, debug, nv, ne) ==
    LET closed == abs(angle) >= 2 * PI
    IN IF Len(wire0) = 0 THEN Cone(wire0, wire0, <<>>, FALSE, <<>>, nv, ne)
       ELSE LET pt0 == front(wire0[1]).pt
                pt1 == back(wire0[Len(wire0)]).pt
                pt1_on_axis == SoSmall(Cross(Sub(pt1, pt0), axis))
                bisect == Len(wire0) = 1 /\ pt1_on_axis
                wire == IF bisect THEN Bisected(wire0, nv, ne) ELSE wire0
                swept == rsweep(wire, pt0, axis, angle, debug,
                                IF bisect THEN nv + 1 ELSE nv, IF bisect THEN ne + 2 ELSE ne)
            IN IF swept.tag = "Panic" THEN swept
               ELSE LET f == ConeFront(swept.shell, swept.shell[1].boundaries[1][1],
                                       0, Len(wire), closed, swept.ne)
                    IN Cone(wire0, wire, swept, pt1_on_axis, f.shell, swept.nv, f.ne)

\* cone cutting every single edge in two
cone_cuts_any_single_edge(wire0, axis, angle, debug, nv, ne) ==
    LET closed == abs(angle) >= 2 * PI
    IN IF Len(wire0) = 0 THEN Cone(wire0, wire0, <<>>, FALSE, <<>>, nv, ne)
       ELSE LET pt0 == front(wire0[1]).pt
                pt1 == back(wire0[Len(wire0)]).pt
                pt1_on_axis == SoSmall(Cross(Sub(pt1, pt0), axis))
                bisect == Len(wire0) = 1
                wire == IF bisect THEN Bisected(wire0, nv, ne) ELSE wire0
                swept == rsweep(wire, pt0, axis, angle, debug,
                                IF bisect THEN nv + 1 ELSE nv, IF bisect THEN ne + 2 ELSE ne)
            IN IF swept.tag = "Panic" THEN swept
               ELSE LET n == Len(wire)
                        f == ConeFront(swept.shell, swept.shell[1].boundaries[1][1],
                                       0, n, closed, swept.ne)
                        b == IF pt1_on_axis
                             THEN ConeBack(f.shell, f.shell[n].boundaries[1][1],
                                           0, n, closed, f.ne)
                             ELSE f
                    IN Cone(wire0, wire, swept, pt1_on_axis, b.shell, swept.nv, b.ne)

\* cone leaving a single edge whole
cone_cuts_no_edge(wire0, axis, angle, debug, nv, ne) ==
    LET closed == abs(angle) >= 2 * PI
    IN IF Len(wire0) = 0 THEN Cone(wire0, wire0, <<>>, FALSE, <<>>, nv, ne)
       ELSE LET pt0 == front(wire0[1]).pt
                pt1 == back(wire0[Len(wire0)]).pt
                pt1_on_axis == SoSmall(Cross(Sub(pt1, pt0), axis))
                bisect == FALSE
                wire == IF bisect THEN Bisected(wire0, nv, ne) ELSE wire0
                swept == rsweep(wire, pt0, axis, angle, debug,
                                IF bisect THEN nv + 1 ELSE nv, IF bisect THEN ne + 2 ELSE ne)
            IN IF swept.tag = "Panic" THEN swept
               ELSE LET n == Len(wire)
                        f == ConeFront(swept.shell, swept.shell[1].boundaries[1][1],
                                       0, n, closed, swept.ne)
                        b == IF pt1_on_axis /\ ~f.panicked
                             THEN ConeBack(f.shell, f.shell[n].boundaries[1][1],
                                           0, n, closed, f.ne)
                             ELSE f
                    IN IF b.panicked THEN Panic(swept.nv, b.ne)
                       ELSE Cone(wire0, wire, swept, pt1_on_axis, b.shell, swept.nv, b.ne)

cone(wire0, axis, angle, debug, nv, ne) ==
    LET closed == abs(angle) >= 2 * PI
    IN IF Len(wire0) = 0 THEN Cone(wire0, wire0, <<>>, FALSE, <<>>, nv, ne)
       ELSE LET pt0 == front(wire0[1]).pt
                pt1 == back(wire0[Len(wire0)]).pt
                pt1_on_axis == SoSmall(Cross(Sub(pt1, pt0), axis))
                bisect == Len(wire0) = 1 /\ pt1_on_axis
                wire == IF bisect THEN Bisected(wire0, nv, ne) ELSE wire0
                swept == rsweep(wire, pt0, axis, angle, debug,
                                IF bisect THEN nv + 1 ELSE nv, IF bisect THEN ne + 2 ELSE ne)
            IN IF swept.tag = "Panic" THEN swept
               ELSE LET n == Len(wire)
                        f == ConeFront(swept.shell, swept.shell[1].boundaries[1][1],
                                       0, n, closed, swept.ne)
                        b == IF pt1_on_axis /\ ~f.panicked
                             THEN ConeBack(f.shell, f.shell[n].boundaries[1][1],
                                           0, n, closed, f.ne)
                             ELSE f
                    IN IF b.panicked THEN Panic(swept.nv, b.ne)
                       ELSE Cone(wire0, wire, swept, pt1_on_axis, b.shell, swept.nv, b.ne)

(***************************************************************************)
(* The calls of rsweep and cone.                                           *)
(***************************************************************************)
\* KnotVec::bezier_knot(degree): degree + 1 zeros, then degree + 1 ones
bezier_knot(degree) ==
    [i \in 1..(2 * (degree + 1)) |-> IF i <= degree + 1 THEN 0 ELSE 1]

\* BSplineCurve::new(knot_vec, control_points)
BSplineCurve(knot_vec, control_points) ==
    [kind |-> "BSplineCurve", knot_vec |-> knot_vec, pts |-> control_points]

\* BSplineCurve::degree
degree(curve) == Len(curve.knot_vec) - Len(curve.pts) - 1

\* bezier with the number of control points taken for the degree
bezier_degree_of_count(id, vertex0, vertex1, inter_points) ==
    LET pt0 == vertex0.pt
        pt1 == vertex1.pt
        ctrl_pts == <<pt0>> \o inter_points \o <<pt1>>
        knot_vec == bezier_knot(Len(ctrl_pts))
    IN Edge(id, vertex0, vertex1, BSplineCurve(knot_vec, ctrl_pts))

\* builder::bezier
bezier(id, vertex0, vertex1, inter_points) ==
    LET pt0 == vertex0.pt
        pt1 == vertex1.pt
        ctrl_pts == <<pt0>> \o inter_points \o <<pt1>>
        knot_vec == bezier_knot(Len(ctrl_pts) - 1)
    IN Edge(id, vertex0, vertex1, BSplineCurve(knot_vec, ctrl_pts))

\* the one inner control point of the curved edges of the caller
InterPoint == <<4, 4, 4>>

\* the wire through the vertices of path p, of lines or of Bezier curves
ProfileWire(p, id0, curved) ==
    IF ~curved THEN PathWire(p, id0)
    ELSE IF Len(p) < 2 THEN <<>>
    ELSE [i \in 1..(Len(p) - 1) |->
            bezier(id0 + i - 1, PoolVertex(p[i]), PoolVertex(p[i + 1]), <<InterPoint>>)]

\* unit_y, its opposite, unit_x, and an axis that is not normalized
Axes == {<<0, 1, 0>>, <<0, -1, 0>>, <<1, 0, 0>>, <<0, 2, 0>>}

Origins == {VPoint(1), VPoint(3)}

CallRsweep ==
    /\ op = "none"
    /\ \E p \in Paths, origin \in Origins, axis \in Axes, angle \in Angles,
          debug \in BOOLEAN :
        LET wire == PathWire(p, 1)
        IN /\ op' = "rsweep"
           /\ args' = [wire |-> wire, origin |-> origin, axis |-> axis, angle |-> angle,
                       debug |-> debug, nv |-> NumVerts + 1, ne |-> Len(wire) + 1]
           /\ ret' = rsweep(wire, origin, axis, angle, debug, NumVerts + 1, Len(wire) + 1)

CallCone ==
    /\ op = "none"
    /\ \E p \in Paths, axis \in Axes, angle \in Angles, debug \in BOOLEAN,
          curved \in BOOLEAN :
        LET wire == ProfileWire(p, 1, curved)
        IN /\ op' = "cone"
           /\ args' = [wire |-> wire, axis |-> axis, angle |-> angle,
                       debug |-> debug, nv |-> NumVerts + 1, ne |-> Len(wire) + 1]
           /\ ret' = cone(wire, axis, angle, debug, NumVerts + 1, Len(wire) + 1)

NextRsweep == CallRsweep

SpecRsweep == Init /\ [][NextRsweep]_vars

NextCone == CallCone

SpecCone == Init /\ [][NextCone]_vars

(***************************************************************************)
(* Properties of rsweep.                                                   *)
(***************************************************************************)
\* the last step of the sweep of wire ends on the wire itself
RingClosed(shell, wire, division) ==
    \A j \in 1..Len(wire) :
        shell[(division - 1) * Len(wire) + j].boundaries[1][3] = inverse(wire[j])

\* no step of the sweep of wire ends on the wire itself
RingOpen(shell, wire, division) ==
    \A f \in 1..Len(shell) : \A j \in 1..Len(wire) :
        shell[f].boundaries[1][3].id # wire[j].id

\* C3: rsweep chooses regime and step count from |angle| alone: a whole
\* closed revolution in 3 steps of 2*pi/3 when |angle| >= 2*pi, an open sweep
\* in 2 equal steps when |angle| < pi and in 3 equal steps otherwise.
C3_Regime ==
    (op = "rsweep" /\ ret.tag = "Swept") =>
        LET a == abs(args.angle)
            n == Len(args.wire)
        IN /\ a >= 2 * PI =>
                /\ ret.regime = "whole" /\ ret.closed /\ ret.division = 3
                /\ ret.step.num * 3 = 2 * PI * ret.step.den
                /\ Len(ret.shell) = 3 * n
                /\ RingClosed(ret.shell, args.wire, 3)
           /\ a < PI =>
                /\ ret.regime = "partial" /\ ~ret.closed /\ ret.division = 2
                /\ ret.step.num = a /\ ret.step.den = 2
                /\ Len(ret.shell) = 2 * n
                /\ RingOpen(ret.shell, args.wire, 2)
           /\ (PI <= a /\ a < 2 * PI) =>
                /\ ret.regime = "partial" /\ ~ret.closed /\ ret.division = 3
                /\ ret.step.num = a /\ ret.step.den = 3
                /\ Len(ret.shell) = 3 * n
                /\ RingOpen(ret.shell, args.wire, 3)

\* a sweep by exactly pi
C3_Witness ==
    /\ op = "rsweep"
    /\ ret.tag = "Swept"
    /\ abs(args.angle) = PI
    /\ Len(args.wire) = 2
    /\ Len(ret.shell) = 6

\* the arcs that the steps of the sweep draw from the front of the wire
StepArcs(r, n) ==
    IF n = 0 THEN <<>>
    ELSE [k \in 1..(Len(r.shell) \div n) |->
            r.shell[(k - 1) * n + 1].boundaries[1][4].curve.angle]

\* C23: in every regime the arc of one step of rsweep spans at most 2*pi/3:
\* exactly 2*pi/3 in a whole revolution, |angle|/2 < pi/2 when |angle| < pi,
\* |angle|/3 < 2*pi/3 when pi <= |angle| < 2*pi; and the steps of a partial
\* sweep add up to exactly |angle|.
C23_StepSpan ==
    (op = "rsweep" /\ ret.tag = "Swept") =>
        LET a == abs(args.angle)
            arcs == StepArcs(ret, Len(args.wire))
            step == ret.step
        IN /\ ~step.neg
           /\ 3 * step.num <= 2 * PI * step.den
           /\ a >= 2 * PI => 3 * step.num = 2 * PI * step.den
           /\ a < PI => /\ step.num = a /\ step.den = 2
                        /\ 2 * step.num < PI * step.den
           /\ (PI <= a /\ a < 2 * PI) =>
                        /\ step.num = a /\ step.den = 3
                        /\ 3 * step.num < 2 * PI * step.den
           /\ a < 2 * PI => ret.division * step.num = a * step.den
           /\ Len(args.wire) > 0 =>
                /\ Len(arcs) = ret.division
                /\ \A k \in 1..Len(arcs) : arcs[k] = step

\* a partial sweep of three quarter turns: three steps of a quarter turn
C23_Witness ==
    /\ op = "rsweep"
    /\ ret.tag = "Swept"
    /\ abs(args.angle) = PI + 1
    /\ Len(StepArcs(ret, Len(args.wire))) = 3
    /\ ret.step.num = 3
    /\ ret.step.den = 3

\* C4: rsweep hands on the axis times signum(angle) and an angle that is not
\* negative, so rsweep(elem, origin, axis, -t) is the same construction as
\* rsweep(elem, origin, -axis, t).
C4_SignFolded ==
    op = "rsweep" =>
        /\ ret.tag = "Swept" =>
                /\ ret.axis = Scale(signum(args.angle), args.axis)
                /\ ~ret.angle.neg
        /\ ret = rsweep(args.wire, args.origin, Scale(-1, args.axis), NegAngle(args.angle),
                        args.debug, args.nv, args.ne)

\* a whole revolution asked for with a negative angle
C4_Witness ==
    /\ op = "rsweep"
    /\ ret.tag = "Swept"
    /\ args.angle.neg
    /\ abs(args.angle) >= 2 * PI
    /\ Len(ret.shell) > 0
    /\ ret.axis = Scale(-1, args.axis)

(***************************************************************************)
(* Properties of cone.                                                     *)
(***************************************************************************)
\* the point of the back vertex of the wire lies on the axis through the
\* point of its front vertex
BackOnAxis(wire, axis) ==
    SoSmall(Cross(Sub(back(wire[Len(wire)]).pt, front(wire[1]).pt), axis))

Steps(r) == Len(r.shell) \div Len(r.wire)

\* the face of step i (from 0) made from the first edge, from the last edge
FrontFace(r, i) == r.shell[i * Len(r.wire) + 1]

BackFace(r, i) == r.shell[(i + 1) * Len(r.wire)]

\* C5: for a wire of n >= 2 edges every face of the cone made from the first
\* edge has 3 boundary edges, and so has every face made from the last edge
\* when the back vertex lies on the axis, while every face of rsweep over
\* the same wire has 4; with 2 edges and both ends on the axis all faces of
\* the cone have 3.
C5_ApexFaces ==
    (op = "cone" /\ ret.tag = "Shell" /\ Len(args.wire) >= 2) =>
        /\ ret.wire = args.wire
        /\ Len(ret.shell) = Len(ret.irregular.shell)
        /\ \A i \in 0..(Steps(ret) - 1) :
                /\ Len(FrontFace(ret, i).boundaries) = 1
                /\ Len(FrontFace(ret, i).boundaries[1]) = 3
                /\ BackOnAxis(args.wire, args.axis) =>
                        /\ Len(BackFace(ret, i).boundaries) = 1
                        /\ Len(BackFace(ret, i).boundaries[1]) = 3
        /\ \A f \in 1..Len(ret.irregular.shell) :
                /\ Len(ret.irregular.shell[f].boundaries) = 1
                /\ Len(ret.irregular.shell[f].boundaries[1]) = 4
        /\ (Len(args.wire) = 2 /\ BackOnAxis(args.wire, args.axis)) =>
                \A f \in 1..Len(ret.shell) : Len(ret.shell[f].boundaries[1]) = 3

\* the cone of the documentation: two edges, both ends on the axis, a whole turn
C5_Witness ==
    /\ op = "cone"
    /\ ret.tag = "Shell"
    /\ Len(args.wire) = 2
    /\ BackOnAxis(args.wire, args.axis)
    /\ abs(args.angle) >= 2 * PI
    /\ Len(ret.shell) = 6
    /\ Len(ret.shell[4].boundaries[1]) = 3
    /\ Len(ret.irregular.shell[4].boundaries[1]) = 4

\* an edge both of whose ends are at point pt
ZeroLengthAt(e, pt) == e.v0.pt = pt /\ e.v1.pt = pt

\* C6: around each apex consecutive faces are stitched on one edge object
\* used in opposite orientations, all stitched edges of an apex end at the
\* one apex vertex (the wire's front vertex, respectively back vertex), and
\* no zero-length edge at the apex is left in a rewritten face.
C6_Stitched ==
    (op = "cone" /\ ret.tag = "Shell" /\ Len(args.wire) > 0) =>
        LET apex0 == front(args.wire[1])
            apex1 == back(args.wire[Len(args.wire)])
        IN /\ \A i \in 0..(Steps(ret) - 1) :
                LET w == FrontFace(ret, i).boundaries[1]
                IN /\ front(w[1]) = apex0
                   /\ back(w[3]) = apex0
                   /\ i + 1 < Steps(ret) =>
                        FrontFace(ret, i + 1).boundaries[1][1] = inverse(w[3])
                   /\ \A k \in 1..Len(w) : ~ZeroLengthAt(w[k], apex0.pt)
           /\ BackOnAxis(args.wire, args.axis) =>
                \A i \in 0..(Steps(ret) - 1) :
                    LET w == BackFace(ret, i).boundaries[1]
                    IN /\ back(w[1]) = apex1
                       /\ front(w[2]) = apex1
                       /\ i + 1 < Steps(ret) =>
                            BackFace(ret, i + 1).boundaries[1][1] = inverse(w[2])
                       /\ \A k \in 1..Len(w) : ~ZeroLengthAt(w[k], apex1.pt)

\* an open cone with two apexes, whose sweep had a zero-length edge at each
C6_Witness ==
    /\ op = "cone"
    /\ ret.tag = "Shell"
    /\ Len(args.wire) = 2
    /\ BackOnAxis(args.wire, args.axis)
    /\ abs(args.angle) = PI
    /\ ZeroLengthAt(ret.irregular.shell[1].boundaries[1][4], front(args.wire[1]).pt)
    /\ ZeroLengthAt(ret.irregular.shell[2].boundaries[1][2], back(args.wire[2]).pt)
    /\ FrontFace(ret, 2).boundaries[1][1] = inverse(FrontFace(ret, 1).boundaries[1][3])

\* every edge is used twice, once in each orientation
ClosedShell(shell) ==
    \A pl \in Places(shell) :
        LET e == EdgeAt(shell, pl)
            same == {q \in Places(shell) : EdgeAt(shell, q).id = e.id}
        IN /\ Cardinality(same) = 2
           /\ \E q \in same : EdgeAt(shell, q).ori # e.ori

C22_RebuiltWires ==
    (op = "cone" /\ ret.tag = "Shell" /\ Len(args.wire) > 0) =>
        \A i \in 0..(Steps(ret) - 1) :
            /\ LET w == FrontFace(ret, i).boundaries[1]
                   was == ret.irregular.shell[i * Len(ret.wire) + 1]
               IN /\ Len(w) = 3
                  /\ IsContinuous(w)
                  /\ IsClosed(w)
                  /\ w[2] = was.boundaries[1][2]
                  /\ back(w[1]).id = back(was.boundaries[1][1]).id
                  /\ FrontFace(ret, i).surface = was.surface
                  /\ FrontFace(ret, i).ori = was.ori
            /\ BackOnAxis(args.wire, args.axis) =>
                LET w == BackFace(ret, i).boundaries[1]
                    was == ret.irregular.shell[(i + 1) * Len(ret.wire)]
                IN /\ Len(w) = 3
                   /\ IsContinuous(w)
                   /\ IsClosed(w)
                   /\ w[3] = was.boundaries[1][4]
                   /\ front(w[1]).id = front(was.boundaries[1][1]).id
                   /\ BackFace(ret, i).surface = was.surface
                   /\ BackFace(ret, i).ori = was.ori

\* a closed cone with two apexes: the last face of each ring is closed on
\* the inverse of the ring's first edge
C22_Witness ==
    /\ op = "cone"
    /\ ret.tag = "Shell"
    /\ Len(ret.wire) = 2
    /\ BackOnAxis(args.wire, args.axis)
    /\ abs(args.angle) >= 2 * PI
    /\ IsClosed(FrontFace(ret, 2).boundaries[1])
    /\ IsClosed(BackFace(ret, 2).boundaries[1])
    /\ FrontFace(ret, 2).boundaries[1][3].id = FrontFace(ret, 0).boundaries[1][1].id
    /\ BackFace(ret, 2).boundaries[1][2].id = BackFace(ret, 0).boundaries[1][1].id

\* the indexes, counted from 0, of the faces the front pass and the back
\* pass of cone read and rewrite
FrontIdx(r) == {i * Len(r.wire) : i \in 0..(Steps(r) - 1)}

BackIdx(r) == {(i + 1) * Len(r.wire) - 1 : i \in 0..(Steps(r) - 1)}

\* C25: cone never indexes out of range and never rewrites a face in both
\* passes.  For an empty wire it returns the empty shell and sweeps nothing.
\* For any other wire it panics only on the assertion of rsweep, the shell
\* has one face per edge of the swept wire and step, every face the front
\* pass reads is a face of the shell with its 4 boundary edges, and when the
\* back vertex is on the axis the swept wire has at least 2 edges, no face is
\* read by both passes, and every face the back pass reads is a face of the
\* shell with its 4 boundary edges.
C25_IndexSafe ==
    op = "cone" =>
        /\ Len(args.wire) = 0 =>
                /\ ret.tag = "Shell"
                /\ ret.shell = <<>>
                /\ ret.irregular = <<>>
                /\ ret.nv = args.nv
                /\ ret.ne = args.ne
        /\ Len(args.wire) > 0 =>
                \/ ret.tag = "Panic" /\ args.debug /\ ~IsUnit(args.axis)
                \/ /\ ret.tag = "Shell"
                   /\ LET n == Len(ret.wire)
                          was == ret.irregular.shell
                      IN /\ Len(was) = n * ret.irregular.division
                         /\ Len(ret.shell) = Len(was)
                         /\ Steps(ret) = ret.irregular.division
                         /\ \A idx \in FrontIdx(ret) :
                                /\ InRange(was, idx)
                                /\ Len(LastBoundary(was[idx + 1])) = 4
                         /\ ret.pt1_on_axis =>
                                /\ n >= 2
                                /\ FrontIdx(ret) \cap BackIdx(ret) = {}
                                /\ \A idx \in BackIdx(ret) :
                                        /\ InRange(was, idx)
                                        /\ Len(LastBoundary(was[idx + 1])) = 4

\* one edge along the axis, turned a whole turn: cut in two, six faces, the
\* passes read faces 0, 2, 4 and 1, 3, 5
C25_Witness ==
    /\ op = "cone"
    /\ ret.tag = "Shell"
    /\ Len(args.wire) = 1
    /\ ret.pt1_on_axis
    /\ abs(args.angle) >= 2 * PI
    /\ FrontIdx(ret) = {0, 2, 4}
    /\ BackIdx(ret) = {1, 3, 5}

\* C14: a single edge whose chord is parallel to the axis is cut in two at
\* the middle of its parameter range: the swept wire has two edges, from the
\* edge's front vertex to a new vertex at the curve's midpoint and from that
\* vertex to the edge's back vertex, carrying the two halves of the curve;
\* any other wire is swept with its own edges.
C14_Bisection ==
    (op = "cone" /\ ret.tag = "Shell" /\ Len(args.wire) > 0) =>
        IF Len(args.wire) = 1 /\ BackOnAxis(args.wire, args.axis)
        THEN LET edge == args.wire[1]
                 w == ret.wire
             IN /\ Len(w) = 2
                /\ front(w[1]) = front(edge)
                /\ back(w[1]) = front(w[2])
                /\ back(w[2]) = back(edge)
                /\ back(w[1]).id \notin VertexIds(args.wire)
                /\ back(w[1]).id >= args.nv
                /\ back(w[1]).pt = SubsMid(edge.curve)
                /\ w[1].curve = CutFirst(edge.curve)
                /\ w[2].curve = CutSecond(edge.curve)
                /\ {w[1].id, w[2].id} \cap EdgeIds(args.wire) = {}
                /\ w[1].id # w[2].id
                /\ ret.irregular.shell[1].boundaries[1][1] = w[1]
                /\ ret.irregular.shell[2].boundaries[1][1] = w[2]
        ELSE /\ ret.wire = args.wire
             /\ \A j \in 1..Len(args.wire) :
                    ret.irregular.shell[j].boundaries[1][1] = args.wire[j]

\* a curved edge from one point of the axis to another, cut at its middle
C14_Witness ==
    /\ op = "cone"
    /\ ret.tag = "Shell"
    /\ Len(args.wire) = 1
    /\ args.wire[1].curve.kind = "BSplineCurve"
    /\ BackOnAxis(args.wire, args.axis)
    /\ Len(ret.wire) = 2
    /\ Len(ret.shell) >= 4

(***************************************************************************)
(* try_attach_plane(wires)                                                 *)
(***************************************************************************)
\* edge.oriented_curve().lift_up().control_points(), as points
ControlPoints(edge) == {oriented_curve(edge).pts[i] : i \in 1..Len(edge.curve.pts)}

\* the points handed to attach_plane
WiresPoints(wires) ==
    UNION {UNION {ControlPoints(wires[w][i]) : i \in 1..Len(wires[w])} : w \in 1..Len(wires)}

Collinear(pts) ==
    \A p, q, r \in pts : SoSmall(Cross(Sub(q, p), Sub(r, p)))

Coplanar(pts) ==
    \A p, q, r, s \in pts : Dot(Cross(Sub(q, p), Sub(r, p)), Sub(s, p)) = 0

\* geom_impls::attach_plane: the plane fitted to the points, if they lie in one
attach_plane(pts) ==
    IF Coplanar(pts) THEN [some |-> TRUE, plane |-> [kind |-> "Plane", through |-> pts]]
    ELSE [some |-> FALSE]

\* Face::try_new: every boundary wire must be closed
Face_try_new(boundaries, surface) ==
    IF \E w \in 1..Len(boundaries) : ~IsClosed(boundaries[w])
    THEN [tag |-> "Err", err |-> "NotClosedWire"]
    ELSE [tag |-> "Ok", face |-> Face(boundaries, surface)]

\* a failure, after the calls made in order
Err(err, calls) == [tag |-> "Err", err |-> err, built |-> FALSE, calls |-> calls]

\* a face, after the calls made in order
Built(face, calls) == [tag |-> "Ok", face |-> face, built |-> TRUE, calls |-> calls]

\* try_attach_plane with every failure reported as WireNotInOnePlane
try_attach_plane_one_error(wires) ==
    LET got == attach_plane(WiresPoints(wires))
    IN IF ~got.some THEN Err(<<"WireNotInOnePlane">>, <<"attach_plane">>)
       ELSE LET r == Face_try_new(wires, got.plane)
            IN IF r.tag = "Err"
               THEN Err(<<"WireNotInOnePlane">>, <<"attach_plane", "Face::try_new">>)
               ELSE Built(r.face, <<"attach_plane", "Face::try_new">>)

\* try_attach_plane with the face made before the plane is fitted
try_attach_plane_closed_first(wires) ==
    LET got == attach_plane(WiresPoints(wires))
        r == Face_try_new(wires, IF got.some THEN got.plane ELSE [kind |-> "Plane"])
    IN IF r.tag = "Err" THEN Err(<<"FromTopology", r.err>>, <<"Face::try_new">>)
       ELSE IF ~got.some
       THEN Err(<<"WireNotInOnePlane">>, <<"Face::try_new", "attach_plane">>)
       ELSE Built(r.face, <<"Face::try_new", "attach_plane">>)

\* try_attach_plane trying the face whether or not a plane was fitted, and
\* reporting the missing plane first
try_attach_plane_face_tried(wires) ==
    LET got == attach_plane(WiresPoints(wires))
        r == Face_try_new(wires, IF got.some THEN got.plane ELSE [kind |-> "Plane"])
    IN IF ~got.some
       THEN Err(<<"WireNotInOnePlane">>, <<"attach_plane", "Face::try_new">>)
       ELSE IF r.tag = "Err"
       THEN Err(<<"FromTopology", r.err>>, <<"attach_plane", "Face::try_new">>)
       ELSE Built(r.face, <<"attach_plane", "Face::try_new">>)

try_attach_plane(wires) ==
    LET got == attach_plane(WiresPoints(wires))
    IN IF ~got.some THEN Err(<<"WireNotInOnePlane">>, <<"attach_plane">>)
       ELSE LET r == Face_try_new(wires, got.plane)
            IN IF r.tag = "Err"
               THEN Err(<<"FromTopology", r.err>>, <<"attach_plane", "Face::try_new">>)
               ELSE Built(r.face, <<"attach_plane", "Face::try_new">>)

(***************************************************************************)
(* The calls of try_attach_plane: one wire through the caller's vertices,  *)
(* of lines or of Bezier curves, alone or with a second wire through three *)
(* vertices of their own.                                                  *)
(***************************************************************************)
\* the points (1, 1, 0), (2, 1, 0) and (1, 2, 0)
InnerTable == << <<4, 4, 0>>, <<8, 4, 0>>, <<4, 8, 0>> >>

InnerVertex(i) == Vertex(NumVerts + i, InnerTable[i])

\* no second wire, a closed triangle, an open chain of two lines
InnerWires(id0) ==
    { <<>>,
      << line(id0, InnerVertex(1), InnerVertex(2)),
         line(id0 + 1, InnerVertex(2), InnerVertex(3)),
         line(id0 + 2, InnerVertex(3), InnerVertex(1)) >>,
      << line(id0, InnerVertex(1), InnerVertex(2)),
         line(id0 + 1, InnerVertex(2), InnerVertex(3)) >> }

\* Wire::is_simple: no vertex is the front of two edges
IsSimple(w) == \A i, j \in 1..Len(w) : front(w[i]).id = front(w[j]).id => i = j

\* the boundaries the calls are drawn from: a plane is fitted to points that
\* span one, and a closed boundary does not meet itself
PlaneInput(wires) ==
    /\ \A w \in 1..Len(wires) :
            /\ Len(wires[w]) > 0
            /\ IsClosed(wires[w]) => IsSimple(wires[w])
    /\ ~Collinear(WiresPoints(wires))

CallTryAttachPlane ==
    /\ op = "none"
    /\ \E p \in PathsUpTo(MaxPlaneLen), curved \in BOOLEAN :
        \E inner \in InnerWires(Len(p)) :
            LET wire == ProfileWire(p, 1, curved)
                wires == IF inner = <<>> THEN <<wire>> ELSE <<wire, inner>>
            IN /\ PlaneInput(wires)
               /\ op' = "try_attach_plane"
               /\ args' = [wires |-> wires]
               /\ ret' = try_attach_plane(wires)

NextPlane == CallTryAttachPlane

SpecPlane == Init /\ [][NextPlane]_vars

(***************************************************************************)
(* Properties of try_attach_plane.                                         *)
(***************************************************************************)
AllClosed(wires) == \A w \in 1..Len(wires) : IsClosed(wires[w])

InOnePlane(wires) == Coplanar(WiresPoints(wires))

C26_PlaneFirst ==
    op = "try_attach_plane" =>
        /\ (~InOnePlane(args.wires) /\ ~AllClosed(args.wires)) =>
                /\ ret.tag = "Err"
                /\ ret.err = <<"WireNotInOnePlane">>
                /\ ret.calls = <<"attach_plane">>
                /\ ~ret.built
        /\ ret.calls[1] = "attach_plane"
        /\ (\E c \in 1..Len(ret.calls) : ret.calls[c] = "Face::try_new") <=>
                InOnePlane(args.wires)

\* an open chain of three lines through four points not in one plane
C26_Witness ==
    /\ op = "try_attach_plane"
    /\ Len(args.wires) = 1
    /\ Len(args.wires[1]) = 3
    /\ ~InOnePlane(args.wires)
    /\ ~AllClosed(args.wires)
    /\ ret.err = <<"WireNotInOnePlane">>
    /\ ret.calls = <<"attach_plane">>

(***************************************************************************)
(* tsweep(elem, vector), for an edge.  The closures handed to the sweep    *)
(* are operators; the sweep of an edge (Sweep for Edge) maps the edge,     *)
(* joins the ends of the edge to the ends of its image with the curve of   *)
(* the point closure and spans the face with the surface of the curve      *)
(* closure.                                                                *)
(***************************************************************************)
\* the kinds of Curve
CurveKinds == {"Line", "BSplineCurve", "NurbsCurve", "IntersectionCurve"}

\* trsl.transform_point(*pt)
TranslatePoint(pt, vector) == Add(pt, vector)

\* curve.transformed(trsl) turning a line into the B-spline curve of its ends
TranslateCurve_line_to_bspline(curve, vector) ==
    [kind |-> IF curve.kind = "Line" THEN "BSplineCurve" ELSE curve.kind,
     pts |-> [i \in 1..Len(curve.pts) |-> TranslatePoint(curve.pts[i], vector)]]

\* curve.transformed(trsl)
TranslateCurve(curve, vector) ==
    [curve EXCEPT !.pts = [i \in 1..Len(curve.pts) |-> TranslatePoint(curve.pts[i], vector)]]

\* the closure that joins a point to its image
connect_points(pt0, pt1) == Line(pt0, pt1)

Plane(o, p, q) == [kind |-> "Plane", o |-> o, p |-> p, q |-> q]

\* BSplineSurface::homotopy(curve0, curve1)
BSplineHomotopy(curve0, curve1) ==
    [kind |-> "BSplineSurface", curve0 |-> curve0, curve1 |-> curve1]

\* NurbsCurve::non_rationalized: the B-spline curve of the weighted points
non_rationalized(curve) == [kind |-> "BSplineCurve", pts |-> curve.pts, weighted |-> TRUE]

Aborted(what) == [aborted |-> TRUE, what |-> what]

Surface(surface) == [aborted |-> FALSE, surface |-> surface]

\* the curve closure spanning two lines with a ruled B-spline surface
connect_curves_lines_ruled(curve0, curve1, vector) ==
    CASE curve0.kind = "Line" /\ curve1.kind = "Line" ->
            Surface(BSplineHomotopy(curve0, curve1))
      [] curve0.kind = "BSplineCurve" /\ curve1.kind = "BSplineCurve" ->
            Surface(BSplineHomotopy(curve0, curve1))
      [] curve0.kind = "NurbsCurve" /\ curve1.kind = "NurbsCurve" ->
            Surface([kind |-> "NurbsSurface",
                     of |-> BSplineHomotopy(non_rationalized(curve0),
                                            non_rationalized(curve1))])
      [] curve0.kind = "IntersectionCurve" /\ curve1.kind = "IntersectionCurve" ->
            Aborted("unimplemented")
      [] OTHER -> Aborted("unreachable")

\* the closure that spans a curve and its image
connect_curves(curve0, curve1, vector) ==
    CASE curve0.kind = "Line" /\ curve1.kind = "Line" ->
            Surface(Plane(curve0.pts[1], curve0.pts[2], Add(curve0.pts[1], vector)))
      [] curve0.kind = "BSplineCurve" /\ curve1.kind = "BSplineCurve" ->
            Surface(BSplineHomotopy(curve0, curve1))
      [] curve0.kind = "NurbsCurve" /\ curve1.kind = "NurbsCurve" ->
            Surface([kind |-> "NurbsSurface",
                     of |-> BSplineHomotopy(non_rationalized(curve0),
                                            non_rationalized(curve1))])
      [] curve0.kind = "IntersectionCurve" /\ curve1.kind = "IntersectionCurve" ->
            Aborted("unimplemented")
      [] OTHER -> Aborted("unreachable")

\* Sweep for Edge: the face between the edge and its image
EdgeSweep(edge, vector, nv, ne) ==
    LET v0 == Vertex(nv, TranslatePoint(edge.v0.pt, vector))
        v1 == Vertex(nv + 1, TranslatePoint(edge.v1.pt, vector))
        edge1 == [edge EXCEPT !.id = ne, !.v0 = v0, !.v1 = v1,
                              !.curve = TranslateCurve(edge.curve, vector)]
        edge2 == Edge(ne + 1, front(edge), front(edge1),
                      connect_points(front(edge).pt, front(edge1).pt))
        edge3 == Edge(ne + 2, back(edge), back(edge1),
                      connect_points(back(edge).pt, back(edge1).pt))
        got == connect_curves(oriented_curve(edge), oriented_curve(edge1), vector)
    IN IF got.aborted THEN [tag |-> "Panic", what |-> got.what]
       ELSE [tag |-> "Face",
             face |-> Face(<< <<edge, edge3, inverse(edge1), inverse(edge2)>> >>, got.surface),
             nv |-> nv + 2, ne |-> ne + 3]

tsweep(elem, vector, nv, ne) == EdgeSweep(elem, vector, nv, ne)

\* the vectors the edges are swept by
Vectors == {<<4, 0, 0>>, <<0, 0, 4>>, <<0, 4, 4>>, <<-4, 0, 0>>}

\* an edge of the caller with a curve of the given kind between two vertices
KindEdge(id, vertex0, vertex1, kind) ==
    Edge(id, vertex0, vertex1,
         [kind |-> kind,
          pts |-> IF kind = "Line" THEN <<vertex0.pt, vertex1.pt>>
                  ELSE <<vertex0.pt, InterPoint, vertex1.pt>>])

CallTsweep ==
    /\ op = "none"
    /\ \E i, j \in 1..NumVerts, kind \in CurveKinds, ori \in BOOLEAN, vector \in Vectors :
        /\ i # j
        /\ LET e == KindEdge(1, PoolVertex(i), PoolVertex(j), kind)
               edge == IF ori THEN e ELSE inverse(e)
           IN /\ op' = "tsweep"
              /\ args' = [edge |-> edge, vector |-> vector, nv |-> NumVerts + 1, ne |-> 2]
              /\ ret' = tsweep(edge, vector, NumVerts + 1, 2)

NextTsweep == CallTsweep

SpecTsweep == Init /\ [][NextTsweep]_vars

\* C13: tsweep spans a swept edge with a Plane when its curve is a Line, with
\* the B-spline homotopy surface of the edge's curve and its image when it is
\* a BSplineCurve, with a NURBS surface of the homotopy of the two
\* non-rationalized curves when it is a NurbsCurve, and aborts as
\* unimplemented, returning nothing, when it is an IntersectionCurve.
C13_SurfaceByKind ==
    op = "tsweep" =>
        LET kind == args.edge.curve.kind
            ends == {args.edge.v0.pt, args.edge.v1.pt}
        IN /\ kind = "Line" =>
                /\ ret.tag = "Face"
                /\ ret.face.surface.kind = "Plane"
                /\ {ret.face.surface.o, ret.face.surface.p} = ends
                /\ ret.face.surface.q = Add(ret.face.surface.o, args.vector)
           /\ kind = "BSplineCurve" =>
                /\ ret.tag = "Face"
                /\ ret.face.surface.kind = "BSplineSurface"
                /\ ret.face.surface.curve0.kind = "BSplineCurve"
                /\ ret.face.surface.curve0.pts \in {args.edge.curve.pts, Reverse(args.edge.curve.pts)}
                /\ ret.face.surface.curve1 =
                        TranslateCurve(ret.face.surface.curve0, args.vector)
           /\ kind = "NurbsCurve" =>
                /\ ret.tag = "Face"
                /\ ret.face.surface.kind = "NurbsSurface"
                /\ ret.face.surface.of.kind = "BSplineSurface"
                /\ ret.face.surface.of.curve0.kind = "BSplineCurve"
                /\ ret.face.surface.of.curve0.weighted
                /\ ret.face.surface.of.curve1 =
                        TranslateCurve(ret.face.surface.of.curve0, args.vector)
           /\ kind = "IntersectionCurve" =>
                /\ ret.tag = "Panic"
                /\ ret.what = "unimplemented"

\* an intersection curve was swept
C13_Witness ==
    /\ op = "tsweep"
    /\ args.edge.curve.kind = "IntersectionCurve"
    /\ ret.tag = "Panic"

NextRevolution == NextRsweep \/ NextCone

SpecRevolution == Init /\ [][NextRevolution]_vars

\* the axis is checked and found not to be a unit vector
AxisRefused == args.debug /\ ~IsUnit(args.axis)

\* every arc and every surface of the sweep turns about the axis
TurnsAbout(swept, axis) ==
    /\ swept.axis = axis
    /\ \A f \in 1..Len(swept.shell) :
            /\ swept.shell[f].surface.axis = axis
            /\ swept.shell[f].boundaries[1][2].curve.axis = axis
            /\ swept.shell[f].boundaries[1][4].curve.axis = axis

\* C16 as stated: rsweep and cone alike panic in a debug build, before any
\* topology is made, when the axis is not a unit vector, and otherwise sweep
\* about signum(angle) times the axis as given.
C16_AxisForBoth ==
    op \in {"rsweep", "cone"} =>
        IF AxisRefused
        THEN ret.tag = "Panic" /\ ret.nv = args.nv /\ ret.ne = args.ne
        ELSE LET axis == Scale(signum(args.angle), args.axis)
             IN /\ op = "rsweep" => ret.tag = "Swept" /\ TurnsAbout(ret, axis)
                /\ (op = "cone" /\ Len(args.wire) > 0) =>
                        ret.tag = "Shell" /\ TurnsAbout(ret.irregular, axis)

\* C16 as amended: rsweep panics in a debug build, before any topology is
\* made, when the axis is not a unit vector, and otherwise sweeps about
\* signum(angle) times the axis as given, never rescaled.  cone hands its
\* axis as given to rsweep, so a non-empty wire gets the same check and the
\* same axis, but a single edge along the axis has been cut in two (one
\* vertex, two edges) when the check fails; an empty wire gets an empty
\* shell and no check.
C16_AxisAsGiven ==
    op \in {"rsweep", "cone"} =>
        LET axis == Scale(signum(args.angle), args.axis)
        IN /\ op = "rsweep" =>
                IF AxisRefused
                THEN ret.tag = "Panic" /\ ret.nv = args.nv /\ ret.ne = args.ne
                ELSE ret.tag = "Swept" /\ TurnsAbout(ret, axis)
           /\ (op = "cone" /\ Len(args.wire) = 0) =>
                ret.tag = "Shell" /\ ret.shell = <<>>
           /\ (op = "cone" /\ Len(args.wire) > 0) =>
                IF AxisRefused
                THEN /\ ret.tag = "Panic"
                     /\ IF Len(args.wire) = 1 /\ BackOnAxis(args.wire, args.axis)
                        THEN ret.nv = args.nv + 1 /\ ret.ne = args.ne + 2
                        ELSE ret.nv = args.nv /\ ret.ne = args.ne
                ELSE ret.tag = "Shell" /\ TurnsAbout(ret.irregular, axis)

\* a release build sweeping about an axis of length 2 and a negative angle
C16_Witness ==
    /\ op = "rsweep"
    /\ ~args.debug
    /\ ~IsUnit(args.axis)
    /\ args.angle.neg
    /\ ret.tag = "Swept"
    /\ Len(ret.shell) > 0
    /\ ret.shell[1].surface.axis = Scale(-1, args.axis)

(***************************************************************************)
(* The builder as a whole: the calls that are handed topology.             *)
(***************************************************************************)
NextBuilder == NextHomotopy \/ NextCone \/ NextPlane

SpecBuilder == Init /\ [][NextBuilder]_vars

\* the wires handed to the call
GivenWires ==
    CASE op = "cone" -> <<args.wire>>
      [] op = "try_wire_homotopy" -> <<args.wire0, args.wire1>>
      [] op = "homotopy" -> << <<args.edge0>>, <<args.edge1>> >>
      [] op = "try_attach_plane" -> args.wires
      [] OTHER -> <<>>

FaceWires(face) == {face.boundaries[b] : b \in 1..Len(face.boundaries)}

ShellWires(shell) == UNION {FaceWires(shell[f]) : f \in 1..Len(shell)}

\* the wires the call made, kept or returned
MadeWires ==
    CASE op = "cone" ->
            IF ret.tag # "Shell" THEN {}
            ELSE {ret.wire} \cup ShellWires(ret.shell) \cup
                 (IF Len(args.wire) > 0 THEN ShellWires(ret.irregular.shell) ELSE {})
      [] op = "try_wire_homotopy" -> ShellWires(ret.shell)
      [] op = "homotopy" -> FaceWires(ret.face)
      [] op = "try_attach_plane" -> IF ret.tag = "Ok" THEN FaceWires(ret.face) ELSE {}
      [] OTHER -> {}

WireEdges(w) == {w[k] : k \in 1..Len(w)}

GivenEdges == UNION {WireEdges(GivenWires[i]) : i \in 1..Len(GivenWires)}

MadeEdges == UNION {WireEdges(w) : w \in MadeWires}

EdgeVertices(edges) == {e.v0 : e \in edges} \cup {e.v1 : e \in edges}

\* what the identity of an edge stands for: its end vertices and its curve
Stored(e) == [id |-> e.id, v0 |-> e.v0, v1 |-> e.v1, curve |-> e.curve]

\* C15: cone, try_wire_homotopy, homotopy and try_attach_plane leave what
\* they are handed as it was: wherever an edge or a vertex of the caller
\* appears in what the call made, it has the end vertices, the curve and the
\* point the caller gave it, and the wire handed to cone still has its own
\* edges after the call, also when cone cut its copy of the wire in two.
C15_InputsKept ==
    op \in {"cone", "try_wire_homotopy", "homotopy", "try_attach_plane"} =>
        /\ \A g \in GivenEdges : \A e \in MadeEdges :
                e.id = g.id => Stored(e) = Stored(g)
        /\ \A u \in EdgeVertices(GivenEdges) : \A v \in EdgeVertices(MadeEdges) :
                v.id = u.id => v = u
        /\ (op = "cone" /\ ret.tag = "Shell") => ret.given = args.wire

\* cone cut its copy of a wire of one edge in two
C15_Witness ==
    /\ op = "cone"
    /\ ret.tag = "Shell"
    /\ Len(args.wire) = 1
    /\ Len(ret.wire) = 2
    /\ Len(ret.given) = 1
    /\ ret.given # ret.wire

(***************************************************************************)
(* inv_or_zero(delta) (truck-geometry/src/nurbs/mod.rs).  An f64 is a      *)
(* fraction num / den, an infinity or NaN; delta is counted in steps of a  *)
(* quarter of the tolerance.                                               *)
(***************************************************************************)
\* largest magnitude of delta, in steps
MaxDelta == 60

\* truck_base::tolerance::TOLERANCE, in steps
TOLERANCE == 4

Finite(num, den) == [kind |-> "finite", num |-> num, den |-> den]

Infinite(neg) == [kind |-> "inf", num |-> IF neg THEN -1 ELSE 1, den |-> 0]

NaN == [kind |-> "nan", num |-> 0, den |-> 0]

Abs(n) == IF n < 0 THEN -n ELSE n

\* Origin::so_small: |x - 0| <= TOLERANCE; no comparison with NaN holds
so_small(x) ==
    /\ x.kind = "finite"
    /\ Abs(x.num) <= TOLERANCE * x.den

\* 1.0 / x
Reciprocal(x) ==
    CASE x.kind = "nan" -> NaN
      [] x.kind = "inf" -> Finite(0, 1)
      [] x.kind = "finite" /\ x.num = 0 -> Infinite(FALSE)
      [] OTHER -> Finite(IF x.num < 0 THEN -x.den ELSE x.den, Abs(x.num))

\* inv_or_zero dividing whatever it is given
inv_or_zero_unguarded(delta) == Reciprocal(delta)

inv_or_zero(delta) ==
    IF so_small(delta) THEN Finite(0, 1) ELSE Reciprocal(delta)

\* the numbers inv_or_zero is called with
Deltas ==
    {Finite(n, 1) : n \in (-MaxDelta)..MaxDelta} \cup {Infinite(TRUE), Infinite(FALSE), NaN}

CallInvOrZero ==
    /\ op = "none"
    /\ \E delta \in Deltas :
        /\ op' = "inv_or_zero"
        /\ args' = [delta |-> delta]
        /\ ret' = inv_or_zero(delta)

NextInvOrZero == CallInvOrZero

SpecInvOrZero == Init /\ [][NextInvOrZero]_vars

\* C17: for every finite delta inv_or_zero returns a finite number: 0 when
\* |delta| is within the tolerance, and otherwise 1 / delta, whose magnitude
\* is at most 1 / tolerance.
C17_GuardedReciprocal ==
    (op = "inv_or_zero" /\ args.delta.kind = "finite") =>
        LET d == args.delta
        IN /\ ret.kind = "finite"
           /\ ret.den > 0
           /\ IF Abs(d.num) <= TOLERANCE * d.den
              THEN ret.num = 0
              ELSE ret.num * d.num = ret.den * d.den
           /\ Abs(ret.num) * TOLERANCE <= ret.den

\* the guard taken at the very edge of the tolerance
C17_Witness ==
    /\ op = "inv_or_zero"
    /\ args.delta = Finite(-TOLERANCE, 1)
    /\ ret = Finite(0, 1)

(***************************************************************************)
(* The calls of bezier.                                                    *)
(***************************************************************************)
\* most intermediate points handed to bezier
MaxInter == 2

\* the points (1, 1, 1), (0, 2, 0) and (2, 0, 1)
InterPoints == {InterPoint, <<0, 8, 0>>, <<8, 0, 4>>}

InterChains == UNION {[1..k -> InterPoints] : k \in 0..MaxInter}

CallBezier ==
    /\ op = "none"
    /\ \E i, j \in 1..NumVerts, inter_points \in InterChains :
        /\ i # j
        /\ op' = "bezier"
        /\ args' = [vertex0 |-> PoolVertex(i), vertex1 |-> PoolVertex(j),
                    inter_points |-> inter_points, ne |-> 1]
        /\ ret' = bezier(1, PoolVertex(i), PoolVertex(j), inter_points)

NextBezier == CallBezier

SpecBezier == Init /\ [][NextBezier]_vars

\* C18: bezier with k intermediate points makes an edge from vertex0 to
\* vertex1 whose curve has the control points [point of vertex0, the
\* intermediate points in order, point of vertex1] and the knot vector of
\* k + 2 zeros and k + 2 ones, of degree k + 1: the number of control points
\* + degree + 1 is the number of knots, and the first and the last control
\* point are the points of the edge's two vertices.
C18_BezierCurve ==
    op = "bezier" =>
        LET k == Len(args.inter_points)
            curve == ret.curve
            n == Len(curve.pts)
        IN /\ ret.v0 = args.vertex0 /\ ret.v1 = args.vertex1 /\ ret.ori
           /\ curve.kind = "BSplineCurve"
           /\ n = k + 2
           /\ curve.pts[1] = args.vertex0.pt
           /\ curve.pts[n] = args.vertex1.pt
           /\ \A i \in 1..k : curve.pts[i + 1] = args.inter_points[i]
           /\ Len(curve.knot_vec) = 2 * (k + 2)
           /\ \A i \in 1..(k + 2) : curve.knot_vec[i] = 0 /\ curve.knot_vec[k + 2 + i] = 1
           /\ degree(curve) = k + 1
           /\ n + (k + 1) + 1 = Len(curve.knot_vec)
           /\ curve.pts[1] = front(ret).pt /\ curve.pts[n] = back(ret).pt

\* a cubic: two intermediate points
C18_Witness ==
    /\ op = "bezier"
    /\ Len(args.inter_points) = 2
    /\ args.inter_points[1] # args.inter_points[2]
    /\ Len(ret.curve.pts) = 4
    /\ Len(ret.curve.knot_vec) = 8

(***************************************************************************)
(* The STEP importer (truck-stepio/src/in/mod.rs): the conversions of the  *)
(* B-spline curve and surface entities.  Knot values are integers, control *)
(* points are counted, and a conversion ends in Ok, in Err or in a panic.  *)
(***************************************************************************)
\* most knots, and most multiplicities, of an entity with knots
MaxKnots == 3
\* largest degree of an entity
MaxDegree == 3
\* most control points of a curve entity
MaxCtrl == 4

Ok(value) == [tag |-> "Ok", value |-> value]

Failed(what) == [tag |-> "Err", value |-> what]

Panicked(what) == [tag |-> "Panic", value |-> what]

\* the sequence of `count` copies of x
Repeat(x, count) == [i \in 1..count |-> x]

RECURSIVE Expand(_, _, _)
\* the knots, knot i written multi[i] times
Expand(knots, multi, i) ==
    IF i > Len(knots) THEN <<>>
    ELSE Repeat(knots[i], multi[i]) \o Expand(knots, multi, i + 1)

\* KnotVec::from_single_multi: fails unless there is a multiplicity for each
\* knot and the knots increase
from_single_multi(knots, multi) ==
    IF Len(knots) # Len(multi) THEN Failed("knots and multiplicities differ in length")
    ELSE IF \E i \in 1..(Len(knots) - 1) : knots[i] >= knots[i + 1]
    THEN Failed("NotSortedVector")
    ELSE Ok(Expand(knots, multi, 1))

\* BSplineCurve::try_new(knot_vec, control_points), the control points counted
try_new(knot_vec, num_ctrl) ==
    IF num_ctrl = 0 THEN Failed("EmptyControlPoints")
    ELSE IF Len(knot_vec) <= num_ctrl THEN Failed("TooShortKnotVector")
    ELSE IF knot_vec[1] = knot_vec[Len(knot_vec)] THEN Failed("ZeroRange")
    ELSE Ok([knot_vec |-> knot_vec, num_ctrl |-> num_ctrl])

\* BSplineSurface::try_new((uknots, vknots), control_points), rows by columns
surface_try_new(uknots, vknots, rows, cols) ==
    IF rows = 0 \/ cols = 0 THEN Failed("EmptyControlPoints")
    ELSE IF Len(uknots) <= rows \/ Len(vknots) <= cols THEN Failed("TooShortKnotVector")
    ELSE IF uknots[1] = uknots[Len(uknots)] \/ vknots[1] = vknots[Len(vknots)]
    THEN Failed("ZeroRange")
    ELSE Ok([uknots |-> uknots, vknots |-> vknots, rows |-> rows, cols |-> cols])

\* .map_err(|x| x.to_string())
map_err(r) == IF r.tag = "Err" THEN Failed(<<"ExpressParseError", r.value>>) ELSE r

\* Result::unwrap
unwrap(r) == IF r.tag = "Ok" THEN r ELSE Panicked(<<"unwrap on Err", r.value>>)

\* TryFrom<&BSplineCurveWithKnots> for BSplineCurve
curve_with_knots(knots, multi, num_ctrl) ==
    LET knot_vec == unwrap(from_single_multi(knots, multi))
    IN IF knot_vec.tag = "Panic" THEN knot_vec
       ELSE map_err(try_new(knot_vec.value, num_ctrl))

\* TryFrom<&BSplineSurfaceWithKnots> for BSplineSurface
surface_with_knots(uknots, umulti, vknots, vmulti, rows, cols) ==
    LET u == unwrap(from_single_multi(uknots, umulti))
        v == unwrap(from_single_multi(vknots, vmulti))
    IN IF u.tag = "Panic" THEN u
       ELSE IF v.tag = "Panic" THEN v
       ELSE map_err(surface_try_new(u.value, v.value, rows, cols))

\* KnotVec::uniform_knot(degree, division) after transform(division, 0.0)
uniform_knot(deg, division) ==
    Repeat(0, deg + 1) \o [i \in 1..(division - 1) |-> i] \o Repeat(division, deg + 1)

\* TryFrom<&QuasiUniformCurve> for BSplineCurve.  num_ctrl - degree is a
\* subtraction of usize: below zero it panics in a build that checks
\* overflow, and wraps to more knots than can be allocated in one that does
\* not.
quasi_uniform_curve(deg, num_ctrl, checked) ==
    IF num_ctrl < deg
    THEN IF checked THEN Panicked("attempt to subtract with overflow")
         ELSE Panicked("capacity overflow")
    ELSE LET division == num_ctrl - deg
         IN map_err(try_new(uniform_knot(deg, division), num_ctrl))

\* the conversion of a uniform curve counting its knots up to, and not
\* through, degree + num_ctrl
uniform_curve_one_short(deg, num_ctrl) ==
    LET knots == Ok([i \in 1..(deg + num_ctrl) |-> (i - 1) - deg])
    IN map_err(try_new(unwrap(knots).value, num_ctrl))

\* TryFrom<&UniformCurve> for BSplineCurve
uniform_curve(deg, num_ctrl) ==
    LET knots == Ok([i \in 1..(deg + num_ctrl + 1) |-> (i - 1) - deg])
    IN map_err(try_new(unwrap(knots).value, num_ctrl))

\* the knots, and the multiplicities, an entity may carry
KnotLists(n) == UNION {[1..k -> 0..2] : k \in 1..n}

MultiLists(n) == UNION {[1..k -> 1..2] : k \in 1..n}

CallCurveWithKnots ==
    /\ op = "none"
    /\ \E knots \in KnotLists(MaxKnots), multi \in MultiLists(MaxKnots), num_ctrl \in 0..MaxCtrl :
        /\ op' = "curve_with_knots"
        /\ args' = [knots |-> knots, multi |-> multi, num_ctrl |-> num_ctrl]
        /\ ret' = curve_with_knots(knots, multi, num_ctrl)

CallSurfaceWithKnots ==
    /\ op = "none"
    /\ \E uknots \in KnotLists(2), umulti \in MultiLists(2),
          vknots \in KnotLists(2), vmulti \in MultiLists(2), rows \in 1..2, cols \in 1..2 :
        /\ op' = "surface_with_knots"
        /\ args' = [uknots |-> uknots, umulti |-> umulti, vknots |-> vknots,
                    vmulti |-> vmulti, rows |-> rows, cols |-> cols]
        /\ ret' = surface_with_knots(uknots, umulti, vknots, vmulti, rows, cols)

CallQuasiUniformCurve ==
    /\ op = "none"
    /\ \E deg \in 0..MaxDegree, num_ctrl \in 0..MaxCtrl, checked \in BOOLEAN :
        /\ op' = "quasi_uniform_curve"
        /\ args' = [degree |-> deg, num_ctrl |-> num_ctrl, checked |-> checked]
        /\ ret' = quasi_uniform_curve(deg, num_ctrl, checked)

CallUniformCurve ==
    /\ op = "none"
    /\ \E deg \in 0..MaxDegree, num_ctrl \in 0..MaxCtrl :
        /\ op' = "uniform_curve"
        /\ args' = [degree |-> deg, num_ctrl |-> num_ctrl]
        /\ ret' = uniform_curve(deg, num_ctrl)

NextStep ==
    \/ CallCurveWithKnots
    \/ CallSurfaceWithKnots
    \/ CallQuasiUniformCurve
    \/ CallUniformCurve

SpecStep == Init /\ [][NextStep]_vars

\* knots that do not increase, or not one multiplicity for each knot
BadKnots(knots, multi) ==
    \/ Len(knots) # Len(multi)
    \/ \E i \in 1..(Len(knots) - 1) : knots[i] >= knots[i + 1]

\* C19: a conversion never panics, and returns Err when the knots and the
\* multiplicities of a curve or surface with knots differ in length or the
\* knots do not increase, and when a uniform or quasi-uniform curve has fewer
\* control points than its degree.
C19_ErrNeverPanic ==
    /\ ret.tag # "Panic"
    /\ (op = "curve_with_knots" /\ BadKnots(args.knots, args.multi)) => ret.tag = "Err"
    /\ (/\ op = "surface_with_knots"
        /\ (BadKnots(args.uknots, args.umulti) \/ BadKnots(args.vknots, args.vmulti))) =>
            ret.tag = "Err"
    /\ (op \in {"quasi_uniform_curve", "uniform_curve"} /\ args.num_ctrl < args.degree) =>
            ret.tag = "Err"

\* C24: the knot vector built for a uniform curve of degree d with n control
\* points is the n + d + 1 integers from -d to n, each one more than the one
\* before; the knot vector built for a quasi-uniform curve with n > d has
\* n + d + 1 knots as well, from 0 to n - d, d + 1 of them at either end and
\* never decreasing.
C24_KnotCount ==
    /\ (op = "uniform_curve" /\ args.num_ctrl >= 1) =>
            /\ ret.tag = "Ok"
            /\ LET knots == ret.value.knot_vec
                   n == args.num_ctrl
                   d == args.degree
               IN /\ Len(knots) = n + d + 1
                  /\ knots[1] = -d
                  /\ knots[Len(knots)] = n
                  /\ \A i \in 1..(Len(knots) - 1) : knots[i + 1] = knots[i] + 1
    /\ (op = "quasi_uniform_curve" /\ args.num_ctrl > args.degree) =>
            /\ ret.tag = "Ok"
            /\ LET knots == ret.value.knot_vec
                   n == args.num_ctrl
                   d == args.degree
               IN /\ Len(knots) = n + d + 1
                  /\ \A i \in 1..(d + 1) : knots[i] = 0
                  /\ \A i \in (n + 1)..(n + d + 1) : knots[i] = n - d
                  /\ \A i \in 1..(Len(knots) - 1) : knots[i] <= knots[i + 1]

\* a uniform curve of degree 2 with 3 control points: the knots -2 .. 3
C24_Witness ==
    /\ op = "uniform_curve"
    /\ args.degree = 2
    /\ args.num_ctrl = 3
    /\ ret.tag = "Ok"
    /\ ret.value.knot_vec = <<-2, -1, 0, 1, 2, 3>>

(***************************************************************************)
(* The partial torus (mod partial_torus): a vertex is swept a whole turn   *)
(* about unit_y into a circle, a plane is attached to the circle, and the  *)
(* disk is swept about unit_z by the angle of the call.  Lengths are       *)
(* counted in quarters: the vertex of the test is <<2, 0, 0>> and the      *)
(* centre of its circle <<3, 0, 0>>.                                       *)
(***************************************************************************)
unit_y == <<0, 1, 0>>

unit_z == <<0, 0, 1>>

\* Rad(7.0): more than a whole turn
Rad7 == Rad(FALSE, 2 * PI + 1)

\* the sweep of a vertex (MultiSweep and ClosedSweep for Vertex): the wire of
\* the connectors of the vertex, step by step, with the closures and ids of r
vertex_sweep(v, r) ==
    LET g == [Sweeper(<<>>, r.origin, r.axis, r.step, r.division, r.closed, r.nv, r.ne)
                EXCEPT !.vids = {v.id}, !.numV = 1]
    IN [k \in 1..r.division |-> connect_vertices(v, k - 1, g)]

\* Face::inverse
inverse_face(face) == [face EXCEPT !.ori = ~face.ori]

\* Face::boundaries: the boundary wires the way the face runs them
boundaries(face) ==
    IF face.ori THEN face.boundaries
    ELSE [w \in 1..Len(face.boundaries) |->
            [i \in 1..Len(face.boundaries[w]) |->
                inverse(face.boundaries[w][Len(face.boundaries[w]) + 1 - i])]]

\* the sweep of a face (MultiSweep and ClosedSweep for Face): the face
\* inverted, the sweep r of its boundary, and the last image of the face; a
\* closed sweep has its sides only
face_sweep(face, r, nv, ne) ==
    LET wire == face.boundaries[1]
        g == Sweeper(wire, r.origin, r.axis, r.step, r.division, r.closed, nv, ne)
        last == Face(<< [j \in 1..Len(wire) |-> MappedEdge(wire[j], r.division, g)] >>,
                     [face.surface EXCEPT
                        !.through = {RotateK(pt, r.division, g) : pt \in @}])
    IN [tag |-> "Solid", closed |-> r.closed, division |-> r.division,
        origin |-> r.origin, axis |-> r.axis, angle |-> r.angle, step |-> r.step,
        shell |-> IF r.closed THEN r.shell
                  ELSE <<inverse_face(face)>> \o r.shell \o <<last>>]

\* rsweep(elem, origin, axis, angle) for a face
rsweep_face(face, origin, axis, angle, debug, nv, ne) ==
    LET r == rsweep(face.boundaries[1], origin, axis, angle, debug, nv, ne)
    IN IF r.tag = "Panic" THEN r ELSE face_sweep(face, r, nv, ne)

\* the disk of the test: the circle of the vertex at <<x, 0, 0>> about the
\* centre, with a plane attached
Disk(x, centre, debug) ==
    LET v == Vertex(1, <<x, 0, 0>>)
        w == vertex_sweep(v, rsweep(<<>>, centre, unit_y, Rad7, debug, 2, 1))
    IN try_attach_plane(<<w>>).face

\* the x of the vertex and of the centre of its circle
DiskSizes == {<<x, big>> \in (1..2) \X (3..5) : TRUE}

CallPartialTorus ==
    /\ op = "none"
    /\ \E size \in DiskSizes, angle \in Angles, debug \in BOOLEAN :
        LET centre == <<size[2], 0, 0>>
            face == Disk(size[1], centre, debug)
        IN /\ op' = "partial_torus"
           /\ args' = [face |-> face, centre |-> centre, angle |-> angle, debug |-> debug]
           /\ ret' = rsweep_face(face, <<0, 0, 0>>, unit_z, angle, debug,
                                 1 + DIVISION, 1 + DIVISION)

NextTorus == CallPartialTorus

SpecTorus == Init /\ [][NextTorus]_vars

(***************************************************************************)
(* What the test measures.  A revolution surface is the curve (parameter   *)
(* u) turned about the axis (parameter v), and its normal is the cross     *)
(* product of its two derivatives.  The surfaces are sampled where the     *)
(* coordinates are integers, at whole quarter turns of the profile and of  *)
(* the revolution: the normal of a revolution surface off its axis does    *)
(* not change sides within a face.                                         *)
(***************************************************************************)
\* the steps a point has taken about axis
StepsAbout(pt, axis) ==
    LET marks == {m \in 0..((Len(pt) - 3) \div 4 - 1) :
                    <<pt[5 + 4 * m], pt[6 + 4 * m], pt[7 + 4 * m]>> = axis}
    IN IF marks = {} THEN 0 ELSE pt[4 + 4 * (CHOOSE m \in marks : TRUE)]

\* the image of a point one step further about axis, the last it turned about
StepOn(pt, axis) ==
    IF StepsAbout(pt, axis) = 0 THEN pt \o <<1>> \o axis
    ELSE [pt EXCEPT ![Len(pt) - 3] = @ + 1]

RECURSIVE Turned(_, _, _)
\* Matrix4::from_axis_angle(axis, quarter turns) applied to a vector
Turned(w, axis, quarters) ==
    IF quarters = 0 THEN w
    ELSE Turned(Add(Cross(axis, w), Scale(Dot(axis, w), axis)), axis, quarters - 1)

TurnedAbout(pt, origin, axis, quarters) == Add(origin, Turned(Sub(pt, origin), axis, quarters))

\* a turn of so many quarters lies within step k of a sweep in steps of step
Within(quarters, k, step) ==
    /\ k * step.num <= quarters * step.den
    /\ quarters * step.den <= (k + 1) * step.num

\* the profile of a revolution surface, a circular arc, before its own mapping
Profile(surface, u) ==
    TurnedAbout(Base(surface.curve.pts[1]), surface.curve.origin, surface.curve.axis, u)

\* RevolutedCurve::subs
subs(surface, u, v) == TurnedAbout(Profile(surface, u), surface.origin, surface.axis, v)

uder(surface, u, v) ==
    Turned(Cross(surface.curve.axis, Sub(Profile(surface, u), surface.curve.origin)),
           surface.axis, v)

vder(surface, u, v) == Cross(surface.axis, Sub(subs(surface, u, v), surface.origin))

\* ParametricSurface3D::normal
normal(surface, u, v) == Normalized(Cross(uder(surface, u, v), vder(surface, u, v)))

\* the whole quarter turns <<u, v>> within the face of a revolution surface
Samples(surface, step) ==
    {uv \in (0..3) \X (0..3) :
        /\ Within(uv[1], StepsAbout(surface.curve.pts[1], surface.curve.axis),
                  surface.curve.angle)
        /\ Within(uv[2], StepsAbout(surface.curve.pts[1], surface.axis), step)}

\* test_surface_orientation: n0, for the point p of a torus about unit_z
\* whose centre circle has radius big
ExpectedNormal(p, sign, big) ==
    Scale(sign, Normalized(Sub(p, Scale(big, Normalized(<<p[1], p[2], 0>>)))))

\* the normal of face.oriented_surface()
OrientedNormal(face, u, v) ==
    Scale(IF face.ori THEN 1 ELSE -1, normal(face.surface, u, v))

\* surface.search_parameter at a corner of the face, in steps of u and of v
search_parameter(surface, pt) ==
    LET c0 == surface.curve.pts[1]
        c1 == surface.curve.pts[2]
    IN IF pt = c0 THEN <<0, 0>>
       ELSE IF pt = c1 THEN <<1, 0>>
       ELSE IF pt = StepOn(c1, surface.axis) THEN <<1, 1>>
       ELSE IF pt = StepOn(c0, surface.axis) THEN <<0, 1>>
       ELSE <<>>

RECURSIVE Area(_, _, _)
\* test_boundary_orientation: the sum of (u0 + u1) * (v1 - v0) along the wire
Area(surface, wire, i) ==
    IF i > Len(wire) THEN 0
    ELSE LET a == search_parameter(surface, front(wire[i]).pt)
             b == search_parameter(surface, back(wire[i]).pt)
         IN (a[1] + b[1]) * (b[2] - a[2]) + Area(surface, wire, i + 1)

\* the axis the arcs of a wire turn about, the way the wire runs
Circulation(wire) == Scale(IF wire[1].ori THEN 1 ELSE -1, wire[1].curve.axis)

\* the normal of the oriented plane of a disk: attach_plane makes it the
\* axis its circle turns about
PlaneNormal(face) == Scale(IF face.ori THEN 1 ELSE -1, face.boundaries[1][1].curve.axis)

\* the boundary of the face runs with positive area on its oriented surface
BoundaryPositive(face) ==
    IF face.surface.kind = "Plane"
    THEN Dot(Circulation(boundaries(face)[1]), PlaneNormal(face)) > 0
    ELSE Area(face.surface, boundaries(face)[1], 1) > 0

\* Solid::is_geometric_consistent: every edge's curve runs between the points
\* of its vertices, and lies on the surface of its face
is_geometric_consistent(shell) ==
    \A f \in 1..Len(shell) : \A e \in WireEdges(shell[f].boundaries[1]) :
        /\ e.curve.pts[1] = e.v0.pt
        /\ e.curve.pts[Len(e.curve.pts)] = e.v1.pt
        /\ IF shell[f].surface.kind = "Plane"
           THEN {e.v0.pt, e.v1.pt} \subseteq shell[f].surface.through
           ELSE /\ search_parameter(shell[f].surface, e.v0.pt) # <<>>
                /\ search_parameter(shell[f].surface, e.v1.pt) # <<>>

MaxInstances == 2

\* the entities whose holder is deserialized from the whole record
WholeNames ==
    {"CARTESIAN_POINT", "DIRECTION", "VECTOR", "PLACEMENT", "LINE", "POLYLINE",
     "CIRCLE", "PLANE"}

\* the entities whose holder is put together parameter by parameter
ListNames ==
    {"AXIS1_PLACEMENT", "AXIS2_PLACEMENT_2D", "AXIS2_PLACEMENT_3D",
     "B_SPLINE_CURVE_WITH_KNOTS", "BEZIER_CURVE", "QUASI_UNIFORM_CURVE", "UNIFORM_CURVE"}

SurfaceName == "B_SPLINE_SURFACE_WITH_KNOTS"

\* the number of attributes of the holder of an entity
HolderLen(name) ==
    CASE name \in {"CARTESIAN_POINT", "DIRECTION", "PLACEMENT", "POLYLINE", "PLANE"} -> 2
      [] name \in {"VECTOR", "AXIS1_PLACEMENT", "AXIS2_PLACEMENT_2D", "LINE", "CIRCLE"} -> 3
      [] name = "AXIS2_PLACEMENT_3D" -> 4
      [] name \in {"BEZIER_CURVE", "QUASI_UNIFORM_CURVE", "UNIFORM_CURVE"} -> 6
      [] name = "B_SPLINE_CURVE_WITH_KNOTS" -> 9
      [] name = SurfaceName -> 13
      [] OTHER -> 0

Record(name, list, len, bad, label) ==
    [name |-> name, list |-> list, len |-> len, bad |-> bad, label |-> label]

Simple(id, record) == [kind |-> "Simple", id |-> id, record |-> record]

\* a complex instance of `count` records; when its names and parameters
\* match one of the four rational curves, `shape` says which, and the
\* lengths are those of the lists the match binds
Complex(id, count, shape, label, bsp_params, knots_params, weights, bad, mark) ==
    [kind |-> "Complex", id |-> id, count |-> count, shape |-> shape, label |-> label,
     bsp_params |-> bsp_params, knots_params |-> knots_params, weights |-> weights,
     bad |-> bad, mark |-> mark]

\* Holder::deserialize(record), derived by ruststep for a holder of
\* HolderLen attributes: the record must bear the name of the holder and be
\* a list of as many parameters, each of which deserializes
deserialize(holder, record) ==
    IF record.name # holder THEN Failed("invalid value")
    ELSE IF ~record.list THEN Failed("invalid type")
    ELSE IF record.len # HolderLen(holder) THEN Failed("invalid length")
    ELSE IF record.bad # 0 THEN Failed("invalid parameter")
    ELSE Ok(record.label)

\* Holder { attribute: deserialize(&params[0])?, ... }: count parameters are
\* read in order, each index first and the `?` after
Attributes(len, bad, count, label) ==
    IF bad \in 1..count /\ bad <= len THEN Failed("invalid parameter")
    ELSE IF len < count THEN Panicked("index out of bounds")
    ELSE Ok(label)

\* HashMap::insert into the map of a holder
insert(table, map, id, value) ==
    {e \in table : ~(e.map = map /\ e.id = id)} \cup {[map |-> map, id |-> id, value |-> value]}

\* what push_instance leaves: its result and the table
Pushed(r, table, map, id) ==
    IF r.tag = "Ok" THEN [tag |-> "Ok", table |-> insert(table, map, id, r.value)]
    ELSE [tag |-> r.tag, table |-> table]

\* the holder the length of the list is checked with
Checker(name) == IF name = "AXIS2_PLACEMENT_3D" THEN "AXIS2_PLACEMENT_2D" ELSE name

\* push_instance, for EntityInstance::Simple
push_simple(table, id, record) ==
    LET name == record.name
        kept == [tag |-> "Ok", table |-> table]
    IN IF name \in WholeNames
       THEN Pushed(deserialize(name, record), table, name, id)
       ELSE IF name \in ListNames
       THEN IF record.list
            THEN LET checked == IF record.len # HolderLen(name)
                                THEN deserialize(Checker(name), record)
                                ELSE Ok(record.label)
                 IN IF checked.tag = "Err" THEN Pushed(checked, table, name, id)
                    ELSE Pushed(Attributes(record.len, record.bad, HolderLen(name),
                                           record.label), table, name, id)
            ELSE LET r == deserialize(name, record)
                 IN IF r.tag = "Err" THEN Pushed(r, table, name, id) ELSE kept
       ELSE IF name = SurfaceName
       THEN IF record.list /\ record.len = HolderLen(name)
            THEN Pushed(Attributes(record.len, record.bad, HolderLen(name), record.label),
                        table, name, id)
            ELSE kept
       ELSE kept

\* the four rational curves a complex instance of 7 records may be
ComplexShapes == {"B_SPLINE_CURVE_WITH_KNOTS", "BEZIER_CURVE", "QUASI_UNIFORM_CURVE",
                  "UNIFORM_CURVE"}

\* push_instance, for EntityInstance::Complex: label[0] is read first, then
\* the parameters of the curve, then weights[0], none of the lists measured
push_complex(table, c) ==
    LET r == IF c.label < 1 THEN Panicked("index out of bounds")
             ELSE IF c.bad THEN Failed("invalid parameter")
             ELSE IF c.bsp_params < 5 THEN Panicked("index out of bounds")
             ELSE IF c.shape = "B_SPLINE_CURVE_WITH_KNOTS" /\ c.knots_params < 3
             THEN Panicked("index out of bounds")
             ELSE IF c.weights < 1 THEN Panicked("index out of bounds")
             ELSE Ok(c.mark)
    IN IF c.count = 7 /\ c.shape \in ComplexShapes
       THEN Pushed(r, table, "RATIONAL_B_SPLINE_CURVE", c.id)
       ELSE [tag |-> "Ok", table |-> table]

push_instance(table, instance) ==
    IF instance.kind = "Simple"
    THEN push_simple(table, instance.id, instance.record)
    ELSE push_complex(table, instance)

RECURSIVE ForEach(_, _, _, _)
\* iter.into_iter().for_each(...): the instances from i on, the errors
\* printed so far
ForEach(table, instances, i, printed) ==
    IF i > Len(instances)
    THEN [tag |-> "Ok", table |-> table, printed |-> printed, offered |-> i - 1]
    ELSE LET r == push_instance(table, instances[i])
         IN IF r.tag = "Panic"
            THEN [tag |-> "Panic", table |-> r.table, printed |-> printed, offered |-> i]
            ELSE ForEach(r.table, instances, i + 1,
                         IF r.tag = "Err" THEN Append(printed, i) ELSE printed)

\* FromIterator<&EntityInstance> for Table
from_iter(instances) == ForEach({}, instances, 1, <<>>)

(***************************************************************************)
(* The calls of push_instance and of from_iter.                            *)
(***************************************************************************)
\* most parameters of a record
MaxParams == 14

EntityNames == WholeNames \cup ListNames \cup {SurfaceName, "PRODUCT"}

\* the records of one entity: any length, the first parameter good or not
Records(name, labels) ==
    {Record(name, list, len, bad, label) :
        list \in BOOLEAN, len \in 0..MaxParams, bad \in 0..1, label \in labels}

\* the complex instances: 7 records or 6, one of the rational curves or
\* none, the lists as long as the curve needs or one short
Complexes(ids) ==
    {Complex(id, count, shape, label, bsp_params, knots_params, weights, bad, "c") :
        id \in ids, count \in 6..7, shape \in ComplexShapes \cup {"OTHER"},
        label \in 0..1, bsp_params \in 4..5, knots_params \in 2..3, weights \in 0..1,
        bad \in BOOLEAN}

\* the table before the call: empty, or holding an entry under id 1
Tables(map) == {{}, {[map |-> map, id |-> 1, value |-> "old"]}}

CallPushInstance ==
    /\ op = "none"
    /\ \/ \E name \in EntityNames, id \in 1..2 :
              \E record \in Records(name, {"a"}), table \in Tables(name) :
                /\ record.bad <= record.len
                /\ op' = "push_instance"
                /\ args' = [table |-> table, instance |-> Simple(id, record)]
                /\ ret' = push_instance(table, Simple(id, record))
       \/ \E c \in Complexes(1..2), table \in Tables("RATIONAL_B_SPLINE_CURVE") :
                /\ op' = "push_instance"
                /\ args' = [table |-> table, instance |-> c]
                /\ ret' = push_instance(table, c)

\* the instances of a data section: points, placements in space, surfaces
\* and products with the right number of parameters or with 3, and
\* rational curves whole or without a label
Pool ==
    {Simple(id, Record(name, TRUE, len, 0, label)) :
        id \in 1..2, label \in {"a", "b"},
        name \in {"CARTESIAN_POINT", "AXIS2_PLACEMENT_3D", SurfaceName, "PRODUCT"},
        len \in {2, 3, 4, 13}}
    \cup {Complex(1, 7, "BEZIER_CURVE", label, 5, 3, 1, FALSE, "c") : label \in 0..1}

CallFromIter ==
    /\ op = "none"
    /\ \E n \in 0..MaxInstances :
        \E instances \in [1..n -> Pool] :
            /\ \A i \in 1..n : instances[i].kind = "Simple" =>
                    instances[i].record.len \in {3, HolderLen(instances[i].record.name)}
            /\ op' = "from_iter"
            /\ args' = [instances |-> instances]
            /\ ret' = from_iter(instances)

NextTable == CallPushInstance \/ CallFromIter

SpecTable == Init /\ [][NextTable]_vars

(***************************************************************************)
(* Properties of the table.                                                *)
(***************************************************************************)
\* C28: push_instance never panics on a simple record, and a recognised
\* entity whose parameter list has the wrong length makes it return Err and
\* leave the table as it was.
C28_WrongLengthErr ==
    (op = "push_instance" /\ args.instance.kind = "Simple") =>
        LET record == args.instance.record
        IN /\ ret.tag # "Panic"
           /\ (/\ record.name \in EntityNames \ {"PRODUCT"}
               /\ record.list
               /\ record.len # HolderLen(record.name)) =>
                    /\ ret.tag = "Err"
                    /\ ret.table = args.table

\* the instances that push_instance takes into an empty table
Taken(instances) ==
    {i \in 1..Len(instances) :
        LET r == push_instance({}, instances[i])
        IN r.tag = "Ok" /\ r.table # {}}

\* the entry that a pushed instance leaves
EntryOf(instance) ==
    CHOOSE e \in push_instance({}, instance).table : TRUE

\* C29: from_iter offers every instance to push_instance in order, prints
\* the error of each push that fails and goes on, and the table it returns
\* holds exactly the entries of the instances that were pushed, the last
\* one for each map and id.
C29_FailuresIsolated ==
    op = "from_iter" =>
        LET instances == args.instances
            taken == Taken(instances)
        IN /\ ret.tag = "Ok"
           /\ ret.offered = Len(instances)
           /\ \A i \in 1..Len(instances) :
                (\E k \in 1..Len(ret.printed) : ret.printed[k] = i) <=>
                    push_instance({}, instances[i]).tag = "Err"
           /\ ret.table =
                {EntryOf(instances[i]) : i \in
                    {i \in taken : \A j \in taken : j > i =>
                        LET e == EntryOf(instances[i])
                            f == EntryOf(instances[j])
                        IN e.map # f.map \/ e.id # f.id}}

(***************************************************************************)
(* The obj viewer (examples/simple-obj-viewer.rs).  The state is MyApp and *)
(* what the handlers change in its scene: the camera is the difference of  *)
(* the cursor positions of its last rotation, its steps along the eye      *)
(* direction and its projection; the light is its type and where it was    *)
(* put.  The cursor moves along a line.  Beside the fields of MyApp the    *)
(* state keeps the history the properties speak of: what the last press of *)
(* the left button found, whether the cursor has moved since, and what the *)
(* first move after a press has done.                                      *)
(***************************************************************************)
\* largest coordinate of the cursor
MaxCursor == 1
\* most steps of the wheel in one direction that are kept apart
MaxDolly == 1

None == [some |-> FALSE]

Some(x) == [some |-> TRUE, value |-> x]

Positions == {<<x, 0>> : x \in 0..MaxCursor}

\* MyApp::init
init ==
    [tag |-> "MyApp", rotate_flag |-> FALSE, prev_cursor |-> None, path |-> None,
     camera_changed |-> FALSE, light_changed |-> FALSE,
     projection |-> "Perspective", rotation |-> None, dolly |-> 0,
     light_type |-> "Point", light_position |-> "given", object |-> None]

\* MyApp::dropped_file
dropped_file(app, path) == [app EXCEPT !.path = Some(path)]

\* mouse_input forgetting nothing when the left button is released
mouse_input_cursor_kept(app, state, button) ==
    CASE button = "Left" -> [app EXCEPT !.rotate_flag = (state = "Pressed")]
      [] button = "Right" ->
            [app EXCEPT !.light_position =
                IF app.light_type = "Point" THEN "camera" ELSE "camera, normalized"]
      [] OTHER -> app

\* MyApp::mouse_input
mouse_input(app, state, button) ==
    CASE button = "Left" ->
            LET rotate_flag == state = "Pressed"
            IN [app EXCEPT !.rotate_flag = rotate_flag,
                           !.prev_cursor = IF ~rotate_flag THEN None ELSE @]
      [] button = "Right" ->
            [app EXCEPT !.light_position =
                IF app.light_type = "Point" THEN "camera" ELSE "camera, normalized"]
      [] OTHER -> app

\* MyApp::mouse_wheel: a line delta of y moves the camera along its eye
\* direction, a pixel delta does nothing
mouse_wheel(app, delta) ==
    IF delta.kind = "LineDelta" THEN [app EXCEPT !.dolly = @ + delta.y] ELSE app

\* &position - prev_position
dir2d(position, prev_position) ==
    <<position[1] - prev_position[1], position[2] - prev_position[2]>>

\* MyApp::cursor_moved
cursor_moved(app, position) ==
    IF app.rotate_flag
    THEN [app EXCEPT
            !.rotation = IF app.prev_cursor.some
                         THEN Some(dir2d(position, app.prev_cursor.value)) ELSE @,
            !.prev_cursor = Some(position)]
    ELSE app

\* MyApp::keyboard_input; soon says whether the last change of the same
\* kind is less than 0.2 seconds old
keyboard_input(app, keycode, soon) ==
    CASE keycode = Some("P") ->
            IF app.camera_changed /\ soon THEN app
            ELSE [app EXCEPT !.camera_changed = TRUE,
                             !.projection = IF @ = "Parallel" THEN "Perspective"
                                            ELSE "Parallel"]
      [] keycode = Some("L") ->
            IF app.light_changed /\ soon THEN app
            ELSE [app EXCEPT !.light_changed = TRUE,
                             !.light_type = IF @ = "Point" THEN "Uniform" ELSE "Point",
                             !.light_position = IF app.light_type = "Point"
                                                THEN "camera, normalized" ELSE "camera"]
      [] OTHER -> app

\* MyApp::update: a dropped file is taken and loaded; opening and reading
\* it are unwrapped, so a file that is not a mesh ends the viewer
update(app, readable) ==
    IF ~app.path.some THEN app
    ELSE IF ~readable THEN [tag |-> "Panic"]
    ELSE [app EXCEPT !.path = None, !.object = app.path]

\* the history before any event
NoHistory == [press |-> "none", moved |-> FALSE, first |-> <<"none", "none">>]

InitViewer ==
    /\ op = "init"
    /\ args = NoHistory
    /\ ret = init

Running == ret.tag = "MyApp"

DroppedFile ==
    /\ Running
    /\ op' = "dropped_file"
    /\ ret' = dropped_file(ret, "a.obj")
    /\ UNCHANGED args

\* a press of the left button is first when it finds the button released
MouseInput ==
    /\ Running
    /\ \E state \in {"Pressed", "Released"}, button \in {"Left", "Right", "Middle"} :
        /\ op' = "mouse_input"
        /\ ret' = mouse_input(ret, state, button)
        /\ args' = IF button = "Left" /\ state = "Pressed"
                   THEN [args EXCEPT !.press = IF ret.rotate_flag THEN "again" ELSE "first",
                                     !.moved = FALSE]
                   ELSE args

MouseWheel ==
    /\ Running
    /\ \E delta \in {[kind |-> "LineDelta", y |-> 1], [kind |-> "LineDelta", y |-> -1],
                     [kind |-> "PixelDelta", y |-> 0]} :
        /\ ret.dolly + delta.y \in (-MaxDolly)..MaxDolly
        /\ op' = "mouse_wheel"
        /\ ret' = mouse_wheel(ret, delta)
        /\ UNCHANGED args

\* the first move after a press of the left button either rotates the
\* camera, from the position kept since before the press, or does not
CursorMoved ==
    /\ Running
    /\ \E position \in Positions :
        /\ op' = "cursor_moved"
        /\ ret' = cursor_moved(ret, position)
        /\ args' = [args EXCEPT
                        !.moved = TRUE,
                        !.first = IF args.press # "none" /\ ~args.moved
                                  THEN IF ret.rotate_flag /\ ret.prev_cursor.some
                                       THEN <<"rotated", args.press>>
                                       ELSE <<"kept", args.press>>
                                  ELSE @]

KeyboardInput ==
    /\ Running
    /\ \E keycode \in {None, Some("P"), Some("L"), Some("A")}, soon \in BOOLEAN :
        /\ op' = "keyboard_input"
        /\ ret' = keyboard_input(ret, keycode, soon)
        /\ UNCHANGED args

Update ==
    /\ Running
    /\ \E readable \in BOOLEAN :
        /\ op' = "update"
        /\ ret' = update(ret, readable)
        /\ UNCHANGED args

NextViewer ==
    \/ DroppedFile
    \/ MouseInput
    \/ MouseWheel
    \/ CursorMoved
    \/ KeyboardInput
    \/ Update

SpecViewer == InitViewer /\ [][NextViewer]_vars

\* C30 as stated: whenever rotate_flag is false prev_cursor is None, and the
\* first cursor move after a press of the left button never rotates the
\* camera from a position recorded before the press.
C30_NeverFromBefore ==
    Running =>
        /\ ~ret.rotate_flag => ~ret.prev_cursor.some
        /\ args.first[1] \in {"none", "kept"}

\* C30 as amended: whenever rotate_flag is false prev_cursor is None; the
\* first cursor move after a press of the left button that found the button
\* released never rotates the camera, no position being remembered from the
\* press until the cursor moves.
C30_FreshPress ==
    Running =>
        /\ ~ret.rotate_flag => ~ret.prev_cursor.some
        /\ args.first[2] = "first" => args.first[1] = "kept"
        /\ (args.press = "first" /\ ~args.moved) => ~ret.prev_cursor.some

\* the button went down, the cursor moved twice: the first move only
\* recorded its position, the second rotated the camera
C30_Witness ==
    /\ Running
    /\ op = "cursor_moved"
    /\ args.first = <<"kept", "first">>
    /\ ret.rotate_flag
    /\ ret.prev_cursor = Some(<<1, 0>>)
    /\ ret.rotation = Some(<<1, 0>>)

====
